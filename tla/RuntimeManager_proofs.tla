----------------------- MODULE RuntimeManager_proofs -----------------------
(***************************************************************************)
(* Proofs about the runs of the runtime manager, for any number of them,   *)
(* any manifests and any results of their workloads.                       *)
(***************************************************************************)
EXTENDS RuntimeManagerProps, Inference_proofs

-----------------------------------------------------------------------------
(* The computations.                                                       *)

\* Every answer of optd, and none, has its outcome.
LEMMA OutcomeType ==
    \A p \in Action \cup {"unasked", "asked", "none", "unavailable"} :
        Outcome(p) \in OutcomeSet
BY DEF OutcomeSet, Outcome, Action

LEMMA ProposeType == \A metrics : Propose(metrics) \in Action
BY DEF Propose, Action

-----------------------------------------------------------------------------
(* What a run has to itself.                                               *)

Own(r) ==
    <<pc[r], loaded[r], worker[r], file[r], proposal[r], measured[r], proven[r],
      stage[r], request[r], answer[r]>>

\* A step that touches nothing of a run keeps what holds of it, while the log
\* may grow.
LEMMA OthersKeep ==
    ASSUME NEW r \in Run, RunConsistent(r), UNCHANGED Own(r), UNCHANGED trusted,
           log \in Seq(Record), log' \in Seq(Record),
           \/ log' = log
           \/ \E d \in Record : log' = Append(log, d) /\ d.run # r
    PROVE  RunConsistent(r)'
<1>1. /\ \A d : FromRun(r, d) => FromRun(r, d)'
      /\ Logged(r)' <=> Logged(r)
  <2>1. CASE log' = log
    BY <2>1 DEF FromRun, Logged
  <2>2. ASSUME NEW e \in Record, log' = Append(log, e), e.run # r
        PROVE  /\ \A d : FromRun(r, d) => FromRun(r, d)'
               /\ Logged(r)' <=> Logged(r)
    <3>1. /\ Len(log') = Len(log) + 1 /\ log'[Len(log) + 1] = e
          /\ \A i \in 1 .. Len(log) : log'[i] = log[i]
          /\ DOMAIN log = 1 .. Len(log) /\ DOMAIN log' = 1 .. Len(log) + 1
          /\ Len(log) \in Nat
      BY <2>2
    <3>2. ASSUME NEW d, FromRun(r, d)
          PROVE  FromRun(r, d)'
      <4>1. PICK i \in DOMAIN log, j \in DOMAIN log :
                i <= j /\ log[i].run = r /\ log[j] = d
        BY <3>2 DEF FromRun
      <4>2. log'[i].run = r /\ log'[j] = d /\ i \in DOMAIN log' /\ j \in DOMAIN log'
        BY <3>1, <4>1
      <4>3. QED
        BY <4>1, <4>2 DEF FromRun
    <3>3. Logged(r)' => Logged(r)
      <4>1. SUFFICES ASSUME NEW i \in DOMAIN log', log'[i].run = r
                     PROVE  Logged(r)
        BY DEF Logged
      <4>2. i # Len(log) + 1
        BY <2>2, <3>1, <4>1
      <4>3. i \in 1 .. Len(log)
        BY <3>1, <4>1, <4>2
      <4>4. QED
        BY <3>1, <4>1, <4>3 DEF Logged
    <3>4. Logged(r) => Logged(r)'
      BY <3>1 DEF Logged
    <3>5. QED
      BY <3>2, <3>3, <3>4
  <2>3. QED
    BY <2>1, <2>2
<1>2. ManagerConsistent(r)' /\ VerifyConsistent(r)'
  BY DEF RunConsistent, Own, ManagerConsistent, VerifyConsistent, Recording, Trusts
<1>3. FileConsistent(r)' /\ ReportConsistent(r)'
  BY <1>1 DEF RunConsistent, Own, FileConsistent, ReportConsistent, Recording,
    Measured, MetricsPath
<1>4. QED
  BY <1>2, <1>3 DEF RunConsistent

\* The same, for every run but one.
LEMMA OneMoves ==
    ASSUME IInv, NEW r \in Run,
           \A q \in Run \ {r} : UNCHANGED Own(q),
           UNCHANGED <<trusted, lastDecision, log>>,
           TypeOK', RunConsistent(r)'
    PROVE  IInv'
<1>1. log \in Seq(Record) /\ LogConsistent'
  BY DEF IInv, TypeOK, LogConsistent
<1>2. \A q \in Run \ {r} : RunConsistent(q)'
  BY <1>1, OthersKeep DEF IInv
<1>3. QED
  BY <1>1, <1>2 DEF IInv

-----------------------------------------------------------------------------
(* What a run does to its place in the state.                              *)

Label == {"idle"} \cup Active \cup Ended

LEMMA Goes ==
    ASSUME TypeOK, NEW r \in Run, NEW label \in Label, Goto(r, label)
    PROVE  /\ pc' \in [Run -> Label]
           /\ loaded' \in [Run -> Offered \cup {None}]
           /\ pc'[r] = label
           /\ label \notin Ended => loaded'[r] = loaded[r]
           /\ \A q \in Run \ {r} : UNCHANGED <<pc[q], loaded[q]>>
BY DEF TypeOK, Goto, Label

LEMMA Calls ==
    ASSUME TypeOK, NEW r \in Run, NEW q \in Registry!Request, Registry!Call(r, q)
    PROVE  /\ Registry!TypeOK'
           /\ stage'[r] = "pending" /\ request'[r] = q /\ answer'[r] = None
           /\ UNCHANGED <<trusted, lastDecision>>
           /\ \A p \in Run \ {r} : UNCHANGED <<stage[p], request[p], answer[p]>>
BY DEF TypeOK, Registry!TypeOK, Registry!Call

LEMMA Receives ==
    ASSUME TypeOK, NEW r \in Run, Receive(r)
    PROVE  /\ Registry!TypeOK'
           /\ stage[r] # "pending" /\ stage'[r] = "idle"
           /\ request'[r] \in {request[r], None}
           /\ UNCHANGED <<trusted, lastDecision, answer>>
           /\ \A p \in Run \ {r} : UNCHANGED <<stage[p], request[p], answer[p]>>
<1>1. CASE Registry!Return(r)
  BY <1>1 DEF TypeOK, Registry!TypeOK, Registry!Return
<1>2. CASE stage[r] = "idle" /\ UNCHANGED registry
  BY <1>2 DEF TypeOK, Registry!TypeOK, registry
<1>3. QED
  BY <1>1, <1>2 DEF Receive

\* What trustd does for a manager: it never changes a manifest, it records the
\* decision that it confirms, and it reports the one that it has.
LEMMA Serves ==
    ASSUME TypeOK, NEW r \in Run, ManagerConsistent(r), Registry!Serve(r)
    PROVE  /\ Registry!TypeOK'
           /\ stage[r] = "pending" /\ stage'[r] = "served"
           /\ answer'[r] # None
           /\ UNCHANGED <<trusted, request>>
           /\ \A p \in Run \ {r} : UNCHANGED <<stage[p], answer[p]>>
           /\ \/ lastDecision' = lastDecision
              \/ Recording(r) /\ lastDecision' = request[r].arg
           /\ answer'[r].kind = "OK" =>
                \/ request[r].cmd = "VERIFY" /\ Trusts(trusted, request[r].arg)
                \/ Recording(r) /\ lastDecision' = request[r].arg
           /\ answer'[r].kind = "DECISION" =>
                /\ lastDecision # None /\ lastDecision' = lastDecision
                /\ answer'[r].val = lastDecision
<1>1. /\ stage[r] = "pending" /\ request[r] # None
      /\ request[r] \in Registry!Request
      /\ request[r].cmd \notin {"ENROLL", "UPDATE", "REPORT"}
  BY DEF Registry!Serve, TypeOK, Registry!TypeOK, ManagerConsistent
<1>2. ASSUME NEW a \in Registry!Answer, Registry!Served(r, a)
      PROVE  /\ stage' \in [Run -> {"idle", "pending", "served"}]
             /\ answer' \in [Run -> Registry!Answer \cup {None}]
             /\ stage'[r] = "served" /\ answer'[r] = a /\ request' = request
             /\ a # None
             /\ \A p \in Run \ {r} : UNCHANGED <<stage[p], answer[p]>>
  BY <1>2, NoneAssumption DEF TypeOK, Registry!TypeOK, Registry!Served
<1>3. /\ Registry!Reply("OK") \in Registry!Answer /\ Registry!Reply("OK").kind = "OK"
      /\ Registry!Reply("ERR") \in Registry!Answer /\ Registry!Reply("ERR").kind = "ERR"
  BY DEF Registry!Reply, Registry!Answer
<1>4. CASE Registry!Verify(r)
  <2>1. Registry!Served(r, Registry!Reply("OK")) /\ UNCHANGED <<trusted, lastDecision>>
    BY <1>4 DEF Registry!Verify
  <2>2. request[r].cmd = "VERIFY" /\ Trusts(trusted, request[r].arg)
    BY <1>4 DEF Registry!Verify, Trusts
  <2>3. QED
    BY <1>1, <1>2, <1>3, <2>1, <2>2 DEF TypeOK, Registry!TypeOK
<1>5. CASE Registry!RecordDecision(r)
  <2>1. Registry!Served(r, Registry!Reply("OK")) /\ UNCHANGED trusted
    BY <1>5 DEF Registry!RecordDecision
  <2>2. Recording(r) /\ lastDecision' = request[r].arg /\ request[r].arg # None
    BY <1>1, <1>5 DEF Registry!RecordDecision, Recording
  <2>3. lastDecision' \in Record
    BY <1>1, <2>2 DEF Registry!Request, Registry!ManifestCommand,
        Registry!StoreCommand, Recording
  <2>4. QED
    BY <1>1, <1>2, <1>3, <2>1, <2>2, <2>3 DEF TypeOK, Registry!TypeOK
<1>6. CASE Registry!ReportDecision(r)
  <2>1. /\ Registry!Served(r, Registry!DecisionReply(lastDecision))
        /\ lastDecision # None /\ UNCHANGED <<trusted, lastDecision>>
    BY <1>6 DEF Registry!ReportDecision
  <2>2. /\ Registry!DecisionReply(lastDecision) \in Registry!Answer
        /\ Registry!DecisionReply(lastDecision).kind = "DECISION"
        /\ Registry!DecisionReply(lastDecision).val = lastDecision
    BY <2>1 DEF TypeOK, Registry!TypeOK, Registry!DecisionReply, Registry!Answer
  <2>3. QED
    BY <1>1, <1>2, <2>1, <2>2 DEF TypeOK, Registry!TypeOK
<1>7. CASE Registry!Deny(r)
  <2>1. Registry!Served(r, Registry!Reply("ERR")) /\ UNCHANGED <<trusted, lastDecision>>
    BY <1>7 DEF Registry!Deny
  <2>2. QED
    BY <1>1, <1>2, <1>3, <2>1 DEF TypeOK, Registry!TypeOK
<1>8. QED
  BY <1>1, <1>4, <1>5, <1>6, <1>7 DEF Registry!Serve, Registry!Store,
    Registry!StoreCommand, Registry!Report

-----------------------------------------------------------------------------
(* The inductive invariant, one process at a time.                         *)

LEMMA InitInv == Init => IInv
<1> SUFFICES ASSUME Init PROVE IInv
  OBVIOUS
<1>1. Stale \in Content
  BY ResultsAssumption DEF Stale, Content, Written
<1>2. TypeOK
  BY <1>1 DEF Init, TypeOK, Registry!TypeOK, Registry!Init
<1>3. LogConsistent
  BY DEF Init, LogConsistent, Registry!Init
<1>4. ASSUME NEW r \in Run
      PROVE  RunConsistent(r)
  <2>1. /\ pc[r] = "idle" /\ worker[r] = "none" /\ proposal[r] = "unasked"
        /\ stage[r] = "idle" /\ request[r] = None /\ log = <<>>
        /\ file[r] \in {Stale, None}
    BY DEF Init, Registry!Init
  <2>2. file[r] # None => file[r].by # r
    BY <2>1, NoneAssumption DEF Stale
  <2>3. QED
    BY <2>1, <2>2 DEF RunConsistent, ManagerConsistent, VerifyConsistent,
        FileConsistent, ReportConsistent, Recording, Logged, Active
<1>5. QED
  BY <1>2, <1>3, <1>4 DEF IInv

LEMMA BeginInv ==
    ASSUME IInv, NEW r \in Run, Load(r) \/ LoadFails(r)
    PROVE  IInv'
<1> USE DEF workloads, optimizer, history, registry
<1>1. TypeOK /\ RunConsistent(r)
  BY DEF IInv
<1>2. CASE Load(r)
  <2>1. PICK f \in Offered :
            /\ loaded' = [loaded EXCEPT ![r] = f]
            /\ proven' = [proven EXCEPT ![r] = Trusts(trusted, f.trust)]
            /\ Registry!Call(r, [cmd |-> "VERIFY", arg |-> f.trust])
    BY <1>2 DEF Load
  <2>2. f \in Files /\ f # None /\ f.trust \in Registry!Manifest
    BY OfferedAssumption, NoneAssumption DEF Files
  <2>3. [cmd |-> "VERIFY", arg |-> f.trust] \in Registry!Request
    BY <2>2 DEF Registry!Request, Registry!ManifestCommand
  <2>4. /\ Registry!TypeOK'
        /\ stage'[r] = "pending" /\ answer'[r] = None
        /\ request'[r] = [cmd |-> "VERIFY", arg |-> f.trust] /\ request'[r] # None
        /\ UNCHANGED <<trusted, lastDecision>>
        /\ \A p \in Run \ {r} : UNCHANGED <<stage[p], request[p], answer[p]>>
    BY <1>1, <2>1, <2>3, Calls, NoneAssumption
  <2>5. TypeOK'
    BY <1>1, <1>2, <2>1, <2>4 DEF Load, TypeOK, Trusts, Active
  <2>6. \A q \in Run \ {r} : UNCHANGED Own(q)
    BY <1>1, <1>2, <2>1, <2>4 DEF Load, TypeOK, Own
  <2>7. RunConsistent(r)'
    <3>1. /\ pc[r] = "idle" /\ pc'[r] = "verify"
          /\ loaded'[r] = f /\ proven'[r] = Trusts(trusted, f.trust)
          /\ UNCHANGED <<worker[r], file[r], measured[r], proposal[r], log, trusted>>
      BY <1>1, <1>2, <2>1, <2>4 DEF Load, TypeOK
    <3>2. ManagerConsistent(r)' /\ VerifyConsistent(r)'
      BY <1>1, <2>2, <2>4, <3>1 DEF RunConsistent, ManagerConsistent,
        VerifyConsistent, Recording
    <3>3. FileConsistent(r)' /\ ReportConsistent(r)'
      BY <1>1, <2>4, <3>1 DEF RunConsistent, FileConsistent, ReportConsistent,
        Recording, Logged, Measured, MetricsPath
    <3>4. QED
      BY <3>2, <3>3 DEF RunConsistent
  <2>8. QED
    BY <1>2, <2>4, <2>5, <2>6, <2>7, OneMoves DEF Load
<1>3. CASE LoadFails(r)
  <2>1. /\ pc'[r] = "failed" /\ pc[r] = "idle"
        /\ pc' \in [Run -> Label]
        /\ loaded' \in [Run -> Offered \cup {None}]
        /\ \A q \in Run \ {r} : UNCHANGED <<pc[q], loaded[q]>>
    BY <1>1, <1>3, Goes DEF LoadFails, Label, Ended
  <2>2. TypeOK'
    BY <1>1, <1>3, <2>1 DEF LoadFails, TypeOK, Registry!TypeOK, Label
  <2>3. \A q \in Run \ {r} : UNCHANGED Own(q)
    BY <1>3, <2>1 DEF LoadFails, Own
  <2>4. RunConsistent(r)'
    BY <1>1, <1>3, <2>1 DEF LoadFails, RunConsistent, ManagerConsistent,
      VerifyConsistent, FileConsistent, ReportConsistent, Recording, Logged,
      Active, Measured, MetricsPath
  <2>5. QED
    BY <1>3, <2>2, <2>3, <2>4, OneMoves DEF LoadFails
<1>4. QED
  BY <1>2, <1>3

\* The answer of trustd arrives.
LEMMA AnsweredInv ==
    ASSUME IInv, NEW r \in Run, Verified(r) \/ Recorded(r) \/ Reported(r)
    PROVE  IInv'
<1> USE DEF workloads, optimizer, history
<1>1. TypeOK /\ RunConsistent(r)
  BY DEF IInv
<1> DEFINE label == IF pc[r] = "verify" THEN IF ReplyOk(r) THEN "launch" ELSE "failed"
                    ELSE IF pc[r] = "record" /\ ReplyOk(r) THEN "report" ELSE "done"
<1>2. /\ pc[r] \in {"verify", "record", "reporting"}
      /\ Receive(r) /\ Goto(r, label)
      /\ UNCHANGED <<workloads, optimizer, history>>
  BY DEF Verified, Recorded, Reported
<1>3. label \in Label
  BY DEF Label, Active, Ended
<1>4. /\ Registry!TypeOK'
      /\ stage[r] # "pending" /\ stage'[r] = "idle"
      /\ request'[r] \in {request[r], None}
      /\ UNCHANGED <<trusted, lastDecision, answer>>
      /\ \A p \in Run \ {r} : UNCHANGED <<stage[p], request[p], answer[p]>>
  BY <1>1, <1>2, Receives
<1>5. /\ pc' \in [Run -> Label] /\ loaded' \in [Run -> Offered \cup {None}]
      /\ pc'[r] = label
      /\ label \notin Ended => loaded'[r] = loaded[r]
      /\ \A q \in Run \ {r} : UNCHANGED <<pc[q], loaded[q]>>
  BY <1>1, <1>2, <1>3, Goes
<1>6. TypeOK'
  BY <1>1, <1>2, <1>4, <1>5 DEF TypeOK, Label
<1>7. \A q \in Run \ {r} : UNCHANGED Own(q)
  BY <1>2, <1>4, <1>5 DEF Own
<1>8. answer[r] # None /\ (ReplyOk(r) <=> answer[r].kind = "OK")
  BY <1>1, <1>2, <1>4 DEF RunConsistent, ManagerConsistent, ReplyOk
<1> HIDE DEF label
<1>9. ManagerConsistent(r)' /\ VerifyConsistent(r)'
  BY <1>1, <1>2, <1>4, <1>5, <1>8 DEF label, RunConsistent, ManagerConsistent,
    VerifyConsistent, Recording, Active, Ended
<1>10. FileConsistent(r)' /\ ReportConsistent(r)'
  BY <1>1, <1>2, <1>4, <1>5, <1>8 DEF label, RunConsistent, FileConsistent,
    ReportConsistent, Recording, Logged, Measured, MetricsPath
<1>11. QED
  BY <1>2, <1>4, <1>6, <1>7, <1>9, <1>10, OneMoves DEF RunConsistent

LEMMA LaunchInv ==
    ASSUME IInv, NEW r \in Run, Launch(r)
    PROVE  IInv'
<1> USE DEF optimizer, registry
<1>1. TypeOK /\ RunConsistent(r)
  BY DEF IInv
<1>2. PICK label \in {"wait", "failed"} :
        /\ Goto(r, label)
        /\ worker' = IF label = "wait" THEN [worker EXCEPT ![r] = "started"] ELSE worker
  BY DEF Launch
<1>3. /\ pc[r] = "launch" /\ file' = Unlink(r)
      /\ proven' = [proven EXCEPT ![r] = FALSE]
      /\ UNCHANGED <<measured, proposal, optd, log, registry>>
  BY DEF Launch
<1>4. /\ pc' \in [Run -> Label] /\ loaded' \in [Run -> Offered \cup {None}]
      /\ pc'[r] = label
      /\ label \notin Ended => loaded'[r] = loaded[r]
      /\ \A q \in Run \ {r} : UNCHANGED <<pc[q], loaded[q]>>
  BY <1>1, <1>2, Goes DEF Label, Active, Ended
<1>5. /\ file' \in [Run -> Content \cup {None}]
      /\ \A q \in Run \ {r} : file'[q] = file[q]
      /\ file'[r] \in {file[r], None}
      /\ loaded[r].capable => file'[r] = None
  BY <1>1, <1>3 DEF TypeOK, Unlink, MetricsPath
<1>6. TypeOK'
  BY <1>1, <1>2, <1>3, <1>4, <1>5 DEF TypeOK, Label, Registry!TypeOK
<1>7. \A q \in Run \ {r} : UNCHANGED Own(q)
  BY <1>1, <1>2, <1>3, <1>4, <1>5 DEF Own, TypeOK
<1>8. ManagerConsistent(r)' /\ VerifyConsistent(r)'
  BY <1>1, <1>3, <1>4 DEF RunConsistent, ManagerConsistent, VerifyConsistent,
    Recording, Active, Ended
<1>9. FileConsistent(r)' /\ ReportConsistent(r)'
  <2>1. worker[r] = "none"
    BY <1>1, <1>3 DEF RunConsistent, ManagerConsistent
  <2>2. ~Recording(r) /\ ~Logged(r) /\ proposal[r] = "unasked"
    BY <1>1, <2>1 DEF RunConsistent, FileConsistent, Measured
  <2>3. QED
    BY <1>1, <1>3, <1>4, <1>5, <2>2 DEF RunConsistent, FileConsistent,
      ReportConsistent, Recording, Logged, Ended
<1>10. QED
  BY <1>3, <1>6, <1>7, <1>8, <1>9, OneMoves DEF RunConsistent

LEMMA WorkerInv ==
    ASSUME IInv, NEW r \in Run, Worker(r)
    PROVE  IInv'
<1> USE DEF managers, optimizer, history, registry
<1>1. TypeOK /\ RunConsistent(r)
  BY DEF IInv
<1>2. /\ worker[r] \in {"started", "open", "written"}
      /\ worker' \in [Run -> {"started", "open", "written", "ok", "bad", "none"}]
      /\ worker'[r] # "none"
      /\ \A q \in Run \ {r} : UNCHANGED worker[q]
      /\ UNCHANGED <<pc, loaded, proposal, optd, proven, log, registry>>
  BY <1>1 DEF Worker, OpenMetrics, WriteMetrics, WorkerExits, TypeOK
<1>3. /\ file' \in [Run -> Content \cup {None}]
      /\ measured' \in [Run -> Results \cup {None}]
      /\ \A q \in Run \ {r} : UNCHANGED <<file[q], measured[q]>>
      /\ \/ UNCHANGED <<file[r], measured[r]>>
         \/ /\ file'[r] # None /\ file'[r].by = r
            /\ file'[r].metrics # None =>
                /\ measured'[r] # None
                /\ file'[r].metrics = Metrics(measured'[r].sample, measured'[r].scores)
  <2>1. CASE OpenMetrics(r)
    BY <1>1, <2>1, NoneAssumption DEF OpenMetrics, TypeOK, MetricsPath, Content
  <2>2. CASE WriteMetrics(r)
    <3>1. PICK i \in Results :
            /\ measured' = [measured EXCEPT ![r] = i]
            /\ file' = [file EXCEPT ![MetricsPath(r)] =
                            [by |-> r, metrics |-> Metrics(i.sample, i.scores)]]
      BY <2>2 DEF WriteMetrics
    <3>2. Metrics(i.sample, i.scores) \in Written
      BY DEF Written
    <3>3. /\ [by |-> r, metrics |-> Metrics(i.sample, i.scores)] \in Content
          /\ i # None
      BY <3>2, NoneAssumption DEF Content
    <3>4. QED
      BY <1>1, <3>1, <3>3, NoneAssumption DEF TypeOK, MetricsPath
  <2>3. CASE WorkerExits(r)
    BY <1>1, <2>3 DEF WorkerExits, TypeOK
  <2>4. QED
    BY <2>1, <2>2, <2>3 DEF Worker
<1>4. TypeOK'
  BY <1>1, <1>2, <1>3 DEF TypeOK, Registry!TypeOK
<1>5. \A q \in Run \ {r} : UNCHANGED Own(q)
  BY <1>2, <1>3 DEF Own
<1>6. ManagerConsistent(r)' /\ VerifyConsistent(r)'
  BY <1>1, <1>2 DEF RunConsistent, ManagerConsistent, VerifyConsistent, Recording
<1>7. FileConsistent(r)' /\ ReportConsistent(r)'
  <2>1. /\ pc[r] \notin {"ask", "asked", "record", "report", "reporting", "done"}
        /\ ~Recording(r) /\ ~Logged(r) /\ proposal[r] = "unasked"
    BY <1>1, <1>2 DEF RunConsistent, FileConsistent, Measured
  <2>2. QED
    BY <1>1, <1>2, <1>3, <2>1 DEF RunConsistent, FileConsistent, ReportConsistent,
      Recording, Logged
<1>8. QED
  BY <1>2, <1>4, <1>5, <1>6, <1>7, OneMoves DEF RunConsistent

\* The workload is waited for, or the manager is killed at any point.
LEMMA EndInv ==
    ASSUME IInv, NEW r \in Run, Reap(r) \/ Kill(r)
    PROVE  IInv'
<1> USE DEF workloads, optimizer, history, registry
<1>1. TypeOK /\ RunConsistent(r)
  BY DEF IInv
<1>2. PICK label \in {"failed", "done", "ask", "killed"} :
        /\ Goto(r, label)
        /\ label = "killed" \/ (Reap(r) /\ label = AfterRun(r))
  <2>1. CASE Reap(r)
    <3>1. AfterRun(r) \in {"failed", "done", "ask"}
      BY <1>1, <2>1 DEF Reap, AfterRun, TypeOK, RunConsistent, ManagerConsistent,
        Active, Files, OfferedAssumption
    <3>2. QED
      BY <2>1, <3>1 DEF Reap
  <2>2. CASE Kill(r)
    BY <2>2 DEF Kill
  <2>3. QED
    BY <2>1, <2>2
<1>3. /\ pc[r] \in Active
      /\ UNCHANGED <<worker, file, measured, proposal, optd, proven, log, registry>>
  BY DEF Reap, Kill, Active
<1>4. /\ pc' \in [Run -> Label] /\ loaded' \in [Run -> Offered \cup {None}]
      /\ pc'[r] = label
      /\ label \notin Ended => loaded'[r] = loaded[r]
      /\ \A q \in Run \ {r} : UNCHANGED <<pc[q], loaded[q]>>
  BY <1>1, <1>2, Goes DEF Label, Active, Ended
<1>5. TypeOK'
  BY <1>1, <1>3, <1>4 DEF TypeOK, Label, Registry!TypeOK
<1>6. \A q \in Run \ {r} : UNCHANGED Own(q)
  BY <1>3, <1>4 DEF Own
<1>7. ManagerConsistent(r)' /\ VerifyConsistent(r)' /\ ReportConsistent(r)'
  BY <1>1, <1>3, <1>4 DEF RunConsistent, ManagerConsistent, VerifyConsistent,
    ReportConsistent, Recording, Logged, Active, Ended
<1>8. FileConsistent(r)'
  <2>1. CASE label \in {"failed", "killed"}
    BY <1>1, <1>3, <1>4, <2>1 DEF RunConsistent, FileConsistent, Measured,
      MetricsPath, Recording, Logged
  <2>2. CASE label \in {"done", "ask"}
    <3>1. /\ pc[r] = "wait" /\ worker[r] = "ok"
          /\ label = "ask" => loaded[r].capable /\ file[r] # None
      BY <1>2, <2>2 DEF Reap, AfterRun, MetricsPath
    <3>2. QED
      BY <1>1, <1>3, <1>4, <2>2, <3>1 DEF RunConsistent, FileConsistent,
        Measured, MetricsPath, Recording, Logged
  <2>3. QED
    BY <2>1, <2>2
<1>9. QED
  BY <1>3, <1>5, <1>6, <1>7, <1>8, OneMoves DEF RunConsistent

LEMMA OptdInv ==
    ASSUME IInv, NEW r \in Run, Ask(r) \/ OptdAnswers(r)
    PROVE  IInv'
<1> USE DEF managers, workloads, history, registry
<1>1. TypeOK /\ RunConsistent(r)
  BY DEF IInv
<1>2. \A metrics : Propose(metrics) \in Action
  BY ProposeType
<1>3. CASE Ask(r)
  <2>1. /\ pc'[r] = "asked" /\ pc[r] = "ask"
        /\ pc' \in [Run -> Label] /\ loaded' \in [Run -> Offered \cup {None}]
        /\ loaded'[r] = loaded[r]
        /\ \A q \in Run \ {r} : UNCHANGED <<pc[q], loaded[q]>>
    BY <1>1, <1>3, Goes DEF Ask, Label, Active, Ended
  <2>2. TypeOK'
    BY <1>1, <1>3, <2>1 DEF Ask, TypeOK, Label, Registry!TypeOK
  <2>3. \A q \in Run \ {r} : UNCHANGED Own(q)
    BY <1>1, <1>3, <2>1 DEF Ask, Own, TypeOK
  <2>4. RunConsistent(r)'
    BY <1>1, <1>3, <2>1 DEF Ask, RunConsistent, ManagerConsistent, VerifyConsistent,
      FileConsistent, ReportConsistent, Recording, Logged, Measured, MetricsPath, Active
  <2>5. QED
    BY <1>3, <2>2, <2>3, <2>4, OneMoves DEF Ask
<1>4. CASE OptdAnswers(r)
  <2>1. /\ proposal[r] = "asked"
        /\ proposal' = [proposal EXCEPT ![r] = Reading(file[MetricsPath(r)])]
        /\ optd' \in {"up", "down"}
        /\ UNCHANGED <<pc, loaded, worker, file, measured, proven, log, registry>>
    BY <1>4 DEF OptdAnswers
  <2>2. TypeOK'
    BY <1>1, <1>2, <2>1 DEF TypeOK, Reading, Registry!TypeOK
  <2>3. \A q \in Run \ {r} : UNCHANGED Own(q)
    BY <1>1, <2>1 DEF Own, TypeOK
  <2>4. ManagerConsistent(r)' /\ VerifyConsistent(r)' /\ ReportConsistent(r)'
    BY <1>1, <2>1 DEF RunConsistent, ManagerConsistent, VerifyConsistent,
      ReportConsistent, Recording, Logged, Trusts, FromRun
  <2>5. FileConsistent(r)'
    <3>1. Measured(r) /\ Measured(r)'
      BY <1>1, <2>1 DEF RunConsistent, FileConsistent, Measured, MetricsPath
    <3>2. QED
      BY <1>1, <2>1, <3>1 DEF RunConsistent, FileConsistent
  <2>6. QED
    BY <2>1, <2>2, <2>3, <2>4, <2>5, OneMoves DEF RunConsistent
<1>5. QED
  BY <1>3, <1>4

\* The decision goes to trustd.
LEMMA DecideInv ==
    ASSUME IInv, NEW r \in Run, Proposed(r) \/ NoOptd(r)
    PROVE  IInv'
<1> USE DEF workloads, history
<1>1. TypeOK /\ RunConsistent(r)
  BY DEF IInv
<1>2. PICK outcome \in OutcomeSet : Decide(r, outcome)
  <2>1. proposal[r] \in Action \cup {"unasked", "asked", "none"}
    BY <1>1 DEF TypeOK
  <2>2. Outcome(proposal[r]) \in OutcomeSet /\ Outcome("unavailable") \in OutcomeSet
    BY <2>1, OutcomeType
  <2>3. QED
    BY <2>2 DEF Proposed, NoOptd
<1>3. pc[r] \in {"ask", "asked"}
  BY DEF Proposed, NoOptd
<1> DEFINE q == [cmd |-> "RECORD_DECISION", arg |-> Entry(r, outcome)]
<1>4. Entry(r, outcome) \in Record
  <2>1. loaded[r] \in Files
    BY <1>1, <1>3, OfferedAssumption DEF TypeOK, RunConsistent, ManagerConsistent, Active
  <2>2. loaded[r].profile.artifact \in Artifact
    BY <2>1 DEF Files, Profile
  <2>3. QED
    BY <2>2 DEF Entry, Record
<1>5. /\ q \in Registry!Request /\ q # None
      /\ q.cmd = "RECORD_DECISION" /\ q.arg # None /\ q.arg.run = r
  BY <1>4, NoneAssumption DEF Registry!Request, Entry
<1>6. Registry!Call(r, q) /\ Goto(r, "record")
  BY <1>2 DEF Decide
<1> HIDE DEF q
<1>7. /\ Registry!TypeOK'
      /\ stage'[r] = "pending" /\ request'[r] = q /\ answer'[r] = None
      /\ UNCHANGED <<trusted, lastDecision>>
      /\ \A p \in Run \ {r} : UNCHANGED <<stage[p], request[p], answer[p]>>
  BY <1>1, <1>5, <1>6, Calls
<1>8. /\ pc' \in [Run -> Label] /\ loaded' \in [Run -> Offered \cup {None}]
      /\ pc'[r] = "record" /\ loaded'[r] = loaded[r]
      /\ \A p \in Run \ {r} : UNCHANGED <<pc[p], loaded[p]>>
  BY <1>1, <1>6, Goes DEF Label, Active, Ended
<1>9. /\ proposal' = [proposal EXCEPT ![r] = "unasked"]
      /\ UNCHANGED <<worker, file, measured, optd, proven, log>>
  BY <1>2 DEF Decide
<1>10. TypeOK'
  BY <1>1, <1>7, <1>8, <1>9 DEF TypeOK, Label
<1>11. \A p \in Run \ {r} : UNCHANGED Own(p)
  BY <1>1, <1>7, <1>8, <1>9 DEF Own, TypeOK
<1>12. ManagerConsistent(r)' /\ VerifyConsistent(r)'
  BY <1>1, <1>3, <1>5, <1>7, <1>8, <1>9 DEF RunConsistent, ManagerConsistent,
    VerifyConsistent, Recording, Active
<1>13. FileConsistent(r)' /\ ReportConsistent(r)'
  BY <1>1, <1>3, <1>7, <1>8, <1>9 DEF RunConsistent, FileConsistent,
    ReportConsistent, Logged, Measured, MetricsPath
<1>14. QED
  BY <1>7, <1>9, <1>10, <1>11, <1>12, <1>13, OneMoves DEF RunConsistent

LEMMA ReportInv ==
    ASSUME IInv, NEW r \in Run, Report(r)
    PROVE  IInv'
<1> USE DEF workloads, optimizer, history
<1> DEFINE q == [cmd |-> "REPORT_DECISION", arg |-> None]
<1>1. TypeOK /\ RunConsistent(r)
  BY DEF IInv
<1>2. q \in Registry!Request /\ q # None /\ q.cmd = "REPORT_DECISION"
  BY NoneAssumption DEF Registry!Request
<1>3. /\ pc[r] = "report" /\ Registry!Call(r, q) /\ Goto(r, "reporting")
      /\ UNCHANGED <<workloads, optimizer, history>>
  BY DEF Report
<1> HIDE DEF q
<1>4. /\ Registry!TypeOK'
      /\ stage'[r] = "pending" /\ request'[r] = q /\ answer'[r] = None
      /\ UNCHANGED <<trusted, lastDecision>>
      /\ \A p \in Run \ {r} : UNCHANGED <<stage[p], request[p], answer[p]>>
  BY <1>1, <1>2, <1>3, Calls
<1>5. /\ pc' \in [Run -> Label] /\ loaded' \in [Run -> Offered \cup {None}]
      /\ pc'[r] = "reporting" /\ loaded'[r] = loaded[r]
      /\ \A p \in Run \ {r} : UNCHANGED <<pc[p], loaded[p]>>
  BY <1>1, <1>3, Goes DEF Label, Active, Ended
<1>6. TypeOK'
  BY <1>1, <1>3, <1>4, <1>5 DEF TypeOK, Label
<1>7. \A p \in Run \ {r} : UNCHANGED Own(p)
  BY <1>3, <1>4, <1>5 DEF Own
<1>8. ManagerConsistent(r)' /\ VerifyConsistent(r)'
  BY <1>1, <1>2, <1>3, <1>4, <1>5 DEF RunConsistent, ManagerConsistent,
    VerifyConsistent, Recording, Active
<1>9. FileConsistent(r)' /\ ReportConsistent(r)'
  BY <1>1, <1>2, <1>3, <1>4, <1>5 DEF RunConsistent, FileConsistent,
    ReportConsistent, Recording, Logged, Measured, MetricsPath
<1>10. QED
  BY <1>3, <1>4, <1>6, <1>7, <1>8, <1>9, OneMoves DEF RunConsistent

\* trustd serves a manager: what it records is from the run that asks, and the
\* log ends with it.
LEMMA TrustdInv ==
    ASSUME IInv, NEW r \in Run, Trustd(r)
    PROVE  IInv'
<1> USE DEF managers, workloads, optimizer
<1>1. TypeOK /\ LogConsistent /\ RunConsistent(r) /\ ManagerConsistent(r)
  BY DEF IInv, RunConsistent
<1>2. /\ Registry!TypeOK'
      /\ stage[r] = "pending" /\ stage'[r] = "served"
      /\ answer'[r] # None
      /\ UNCHANGED <<trusted, request>>
      /\ \A p \in Run \ {r} : UNCHANGED <<stage[p], answer[p]>>
      /\ \/ lastDecision' = lastDecision
         \/ Recording(r) /\ lastDecision' = request[r].arg
      /\ answer'[r].kind = "OK" =>
            \/ request[r].cmd = "VERIFY" /\ Trusts(trusted, request[r].arg)
            \/ Recording(r) /\ lastDecision' = request[r].arg
      /\ answer'[r].kind = "DECISION" =>
            /\ lastDecision # None /\ lastDecision' = lastDecision
            /\ answer'[r].val = lastDecision
  BY <1>1, Serves DEF Trustd
<1>3. /\ UNCHANGED <<pc, loaded, worker, file, measured, proposal, optd, proven>>
      /\ log' = IF lastDecision' = lastDecision THEN log ELSE Append(log, lastDecision')
  BY DEF Trustd
<1>4. Recording(r) =>
        /\ request[r].arg \in Record /\ request[r].arg.run = r
        /\ request[r].arg # None
  <2>1. Recording(r) => request[r] \in Registry!Request /\ request[r].arg # None
    BY <1>1 DEF TypeOK, Registry!TypeOK, ManagerConsistent, Recording
  <2>2. Recording(r) => request[r].arg \in Record
    BY <2>1 DEF Registry!Request, Recording, Registry!ManifestCommand,
        Registry!StoreCommand
  <2>3. QED
    BY <1>1, <2>1, <2>2 DEF ManagerConsistent
<1>5. /\ log \in Seq(Record) /\ log' \in Seq(Record)
      /\ \/ log' = log
         \/ /\ log' = Append(log, request[r].arg)
            /\ Recording(r) /\ lastDecision' = request[r].arg
  BY <1>1, <1>2, <1>3, <1>4 DEF TypeOK
<1>6. TypeOK'
  BY <1>1, <1>2, <1>3, <1>5 DEF TypeOK
<1>7. LogConsistent'
  <2>1. CASE lastDecision' = lastDecision
    BY <1>1, <1>3, <2>1 DEF LogConsistent
  <2>2. CASE lastDecision' # lastDecision
    <3>1. /\ log' # <<>> /\ Len(log') = Len(log) + 1
          /\ log'[Len(log) + 1] = lastDecision'
      BY <1>2, <1>3, <1>4, <1>5, <2>2
    <3>2. QED
      BY <3>1 DEF LogConsistent
  <2>3. QED
    BY <2>1, <2>2
<1>8. \A q \in Run \ {r} : RunConsistent(q)'
  <2>1. \A q \in Run \ {r} : UNCHANGED Own(q)
    BY <1>2, <1>3 DEF Own
  <2>2. \A q \in Run \ {r} :
            \/ log' = log
            \/ \E d \in Record : log' = Append(log, d) /\ d.run # q
    BY <1>4, <1>5
  <2>3. \A q \in Run : RunConsistent(q)
    BY DEF IInv
  <2>4. QED
    BY <1>2, <1>5, <2>1, <2>2, <2>3, OthersKeep
<1>9. Recording(r) /\ lastDecision' = request[r].arg => Logged(r)'
  <2>1. SUFFICES ASSUME Recording(r), lastDecision' = request[r].arg
                 PROVE  Logged(r)'
    OBVIOUS
  <2>2. log' # <<>> /\ lastDecision' = log'[Len(log')]
    BY <1>4, <1>7, <2>1 DEF LogConsistent
  <2>3. Len(log') \in DOMAIN log'
    BY <1>5, <2>2
  <2>4. QED
    BY <1>4, <2>1, <2>2, <2>3 DEF Logged
<1>10. Logged(r) => Logged(r)'
  <2>1. CASE log' = log
    BY <2>1 DEF Logged
  <2>2. CASE Recording(r) /\ lastDecision' = request[r].arg
    BY <1>9, <2>2
  <2>3. QED
    BY <1>5, <2>1, <2>2
<1>11. ManagerConsistent(r)' /\ VerifyConsistent(r)'
  BY <1>1, <1>2, <1>3 DEF RunConsistent, ManagerConsistent, VerifyConsistent,
    Recording, Trusts
<1>12. FileConsistent(r)'
  <2>1. Logged(r)' => Logged(r) \/ Recording(r)
    <3>1. CASE log' = log
      BY <3>1 DEF Logged
    <3>2. QED
      BY <1>5, <3>1
  <2>2. QED
    BY <1>1, <1>2, <1>3, <2>1 DEF RunConsistent, FileConsistent, Measured,
        MetricsPath, Recording
<1>13. ReportConsistent(r)'
  <2>1. pc[r] = "record" => Recording(r)
    BY <1>1, <1>2 DEF ManagerConsistent
  <2>2. pc[r] = "record" /\ answer'[r].kind = "OK" => Logged(r)'
    BY <1>2, <1>9, <2>1 DEF Recording
  <2>3. pc[r] \in {"report", "reporting"} => Logged(r)
    BY <1>1 DEF RunConsistent, ReportConsistent
  <2>4. Logged(r) /\ answer'[r].kind = "DECISION" => FromRun(r, answer[r].val)'
    <3>1. SUFFICES ASSUME Logged(r), answer'[r].kind = "DECISION"
                   PROVE  FromRun(r, answer[r].val)'
      OBVIOUS
    <3>2. log' = log /\ answer'[r].val = lastDecision /\ log # <<>>
          /\ lastDecision = log[Len(log)]
      BY <1>1, <1>2, <1>3, <3>1 DEF LogConsistent
    <3>3. PICK i \in DOMAIN log : log[i].run = r
      BY <3>1 DEF Logged
    <3>4. i <= Len(log) /\ Len(log) \in DOMAIN log
      BY <1>5, <3>2
    <3>5. QED
      BY <3>2, <3>3, <3>4 DEF FromRun
  <2>5. QED
    BY <1>3, <1>10, <2>2, <2>3, <2>4 DEF ReportConsistent
<1>14. QED
  BY <1>6, <1>7, <1>8, <1>11, <1>12, <1>13 DEF IInv, RunConsistent

\* trustd loses its callers, or optd is gone.
LEMMA LossInv ==
    ASSUME IInv, TrustdLoses \/ OptdDies
    PROVE  IInv'
<1> USE DEF managers, workloads, history
<1>1. CASE TrustdLoses
  <2>1. PICK S \in SUBSET Run : Registry!Lose(S)
    BY <1>1 DEF TrustdLoses
  <2>2. /\ UNCHANGED <<pc, loaded, worker, file, measured, proposal, optd, proven, log>>
        /\ UNCHANGED <<trusted, lastDecision>>
    BY <1>1, <2>1 DEF TrustdLoses, Registry!Lose, optimizer
  <2>3. Registry!Reply("LOST") \in Registry!Answer /\ Registry!Reply("LOST").kind = "LOST"
    BY DEF Registry!Reply, Registry!Answer
  <2>4. TypeOK'
    BY <2>1, <2>2, <2>3 DEF IInv, TypeOK, Registry!TypeOK, Registry!Lose
  <2>5. LogConsistent'
    BY <2>2 DEF IInv, LogConsistent
  <2>6. ASSUME NEW q \in Run \ S
        PROVE  RunConsistent(q)'
    <3>1. UNCHANGED Own(q)
      BY <2>1, <2>2 DEF Registry!Lose, Own
    <3>2. RunConsistent(q) /\ log \in Seq(Record)
      BY DEF IInv, TypeOK
    <3>3. QED
      BY <2>2, <3>1, <3>2, OthersKeep
  <2>7. ASSUME NEW q \in S
        PROVE  RunConsistent(q)'
    <3>1. RunConsistent(q)
      BY DEF IInv
    <3>2. /\ stage'[q] = "idle" /\ request'[q] = None
          /\ answer'[q] # None /\ answer'[q].kind = "LOST"
      BY <2>1, <2>3, NoneAssumption DEF Registry!Lose
    <3>3. ManagerConsistent(q)' /\ VerifyConsistent(q)'
      BY <2>2, <3>1, <3>2 DEF RunConsistent, ManagerConsistent, VerifyConsistent, Recording
    <3>4. FileConsistent(q)' /\ ReportConsistent(q)'
      BY <2>2, <3>1, <3>2 DEF RunConsistent, FileConsistent, ReportConsistent,
        Recording, Logged, Measured, MetricsPath
    <3>5. QED
      BY <3>3, <3>4 DEF RunConsistent
  <2>8. QED
    BY <2>4, <2>5, <2>6, <2>7 DEF IInv
<1>2. CASE OptdDies
  <2>1. /\ optd' = "down"
        /\ UNCHANGED <<pc, loaded, worker, file, measured, proposal, proven, log, registry>>
    BY <1>2 DEF OptdDies
  <2>2. TypeOK' /\ LogConsistent'
    BY <2>1 DEF IInv, TypeOK, LogConsistent, registry, Registry!TypeOK
  <2>3. ASSUME NEW q \in Run
        PROVE  RunConsistent(q)'
    <3>1. UNCHANGED Own(q) /\ UNCHANGED trusted
      BY <2>1 DEF Own, registry
    <3>2. RunConsistent(q) /\ log \in Seq(Record)
      BY DEF IInv, TypeOK
    <3>3. QED
      BY <2>1, <3>1, <3>2, OthersKeep
  <2>4. QED
    BY <2>2, <2>3 DEF IInv
<1>3. QED
  BY <1>1, <1>2

\* A manifest is stored by somebody else: who is being asked about it then has
\* seen it trusted.
LEMMA StoredInv ==
    ASSUME IInv, Enroll \/ Update
    PROVE  IInv'
<1>1. PICK m \in Registry!Manifest : Stored(m)
  BY DEF Enroll, Update
<1>2. /\ trusted' = [trusted EXCEPT ![m.artifact] = m]
      /\ UNCHANGED <<pc, loaded, worker, file, measured, proposal, optd, log,
                     lastDecision, stage, request, answer>>
  BY <1>1 DEF Stored, managers, workloads, optimizer
<1>3. proven' = [r \in Run |->
                    \/ proven[r]
                    \/ /\ pc[r] = "verify" /\ stage[r] = "pending"
                       /\ Trusts(trusted', loaded[r].trust)]
  BY <1>1 DEF Stored
<1>4. TypeOK'
  <2>1. trusted' \in [Artifact -> Registry!Manifest \cup {None}]
    BY <1>2 DEF IInv, TypeOK, Registry!TypeOK
  <2>2. proven' \in [Run -> BOOLEAN]
    BY <1>3, Zenon DEF IInv, TypeOK
  <2>3. QED
    BY <1>2, <2>1, <2>2 DEF IInv, TypeOK, Registry!TypeOK
<1>5. LogConsistent'
  BY <1>2 DEF IInv, LogConsistent
<1>6. ASSUME NEW r \in Run
      PROVE  RunConsistent(r)'
  <2>1. RunConsistent(r)
    BY DEF IInv
  <2>2. /\ proven[r] => proven'[r]
        /\ pc[r] = "verify" /\ stage[r] = "pending" /\ Trusts(trusted', loaded[r].trust)
            => proven'[r]
    BY <1>3, Zenon
  <2>3. ManagerConsistent(r)'
    BY <1>2, <2>1 DEF RunConsistent, ManagerConsistent, Recording
  <2>4. VerifyConsistent(r)'
    BY <1>2, <2>1, <2>2 DEF RunConsistent, VerifyConsistent, Trusts
  <2>5. FileConsistent(r)' /\ ReportConsistent(r)'
    BY <1>2, <2>1 DEF RunConsistent, FileConsistent, ReportConsistent, Recording,
        Logged, Measured, MetricsPath, FromRun
  <2>6. QED
    BY <2>3, <2>4, <2>5 DEF RunConsistent
<1>7. QED
  BY <1>4, <1>5, <1>6 DEF IInv

LEMMA NextInv ==
    ASSUME IInv, [Next]_vars
    PROVE  IInv'
<1>1. CASE UNCHANGED vars
  <2>1. /\ UNCHANGED <<pc, loaded, worker, file, measured, proposal, optd, proven, log>>
        /\ UNCHANGED <<trusted, lastDecision, stage, request, answer>>
    BY <1>1 DEF vars, managers, workloads, optimizer, history, registry
  <2>2. TypeOK' /\ LogConsistent'
    BY <2>1 DEF IInv, TypeOK, LogConsistent, Registry!TypeOK
  <2>3. ASSUME NEW q \in Run
        PROVE  RunConsistent(q)'
    BY <2>1, OthersKeep DEF IInv, TypeOK, Own
  <2>4. QED
    BY <2>2, <2>3 DEF IInv
<1>2. ASSUME NEW r \in Run,
             Load(r) \/ LoadFails(r) \/ Manager(r) \/ Kill(r)
                \/ Worker(r) \/ OptdAnswers(r) \/ Trustd(r)
      PROVE  IInv'
  BY <1>2, BeginInv, AnsweredInv, LaunchInv, WorkerInv, EndInv, OptdInv, DecideInv,
    ReportInv, TrustdInv DEF Manager
<1>3. CASE OptdDies \/ TrustdLoses \/ Enroll \/ Update
  BY <1>3, LossInv, StoredInv
<1>4. QED
  BY <1>1, <1>2, <1>3 DEF Next

LEMMA Invariant == Spec => []IInv
<1>1. Init => IInv
  BY InitInv
<1>2. IInv /\ [Next]_vars => IInv'
  BY NextInv
<1>3. QED
  BY <1>1, <1>2, PTL DEF Spec

-----------------------------------------------------------------------------
(* What follows from it.                                                   *)

\* Every reachable state of the managers and their surroundings is well-typed;
\* in particular what is recorded is a decision of some run.
THEOREM TypeCorrect == Spec => []TypeOK
<1>1. IInv => TypeOK
  BY DEF IInv
<1>2. QED
  BY <1>1, Invariant, PTL

\* Status 0 and a recorded decision stand for a workload that ended well and
\* wrote the run's metrics file, for any number of runs at once and whatever
\* is killed or left over.
THEOREM RanMeasured == Spec => []RanAndMeasured
<1>1. IInv => RanAndMeasured
  BY DEF IInv, RunConsistent, FileConsistent, RanAndMeasured, Measured
<1>2. QED
  BY <1>1, Invariant, PTL

\* What a run gets reported is its own decision or a later one.
THEOREM NotOlder == Spec => []ReportedNotOlder
<1>1. IInv => ReportedNotOlder
  BY DEF IInv, RunConsistent, ReportConsistent, ReportedNotOlder
<1>2. QED
  BY <1>1, Invariant, PTL

\* A workload starts only where its manifest was trusted since trustd was asked,
\* however enrolments, updates and lost answers are mixed with the question.
THEOREM LaunchTrusted == Spec => LaunchedWasTrusted
<1> DEFINE Launched == \A r \in Run : worker[r] = "none" /\ worker'[r] # "none" => proven[r]
<1>1. ASSUME IInv, [Next]_vars
      PROVE  Launched
  <2>1. SUFFICES ASSUME NEW r \in Run, worker[r] = "none", worker'[r] # "none"
                 PROVE  proven[r]
    OBVIOUS
  <2>2. TypeOK /\ RunConsistent(r)
    BY <1>1 DEF IInv
  <2>3. worker' # worker
    BY <2>1
  <2>4. CASE UNCHANGED vars
    BY <2>3, <2>4 DEF vars, workloads
  <2>5. ASSUME NEW q \in Run, Worker(q)
        PROVE  FALSE
    BY <2>1, <2>2, <2>5 DEF Worker, OpenMetrics, WriteMetrics, WorkerExits, TypeOK
  <2>6. ASSUME NEW q \in Run,
               Load(q) \/ LoadFails(q) \/ Kill(q) \/ OptdAnswers(q) \/ Trustd(q)
                \/ Verified(q) \/ Reap(q) \/ Ask(q) \/ Recorded(q) \/ Report(q)
                \/ Reported(q)
        PROVE  FALSE
    BY <2>3, <2>6 DEF Load, LoadFails, Kill, OptdAnswers, Trustd, Verified, Reap, Ask,
      Recorded, Report, Reported, workloads
  <2>7. ASSUME NEW q \in Run, Proposed(q) \/ NoOptd(q)
        PROVE  FALSE
    BY <2>3, <2>7 DEF Proposed, NoOptd, Decide, workloads
  <2>8. CASE OptdDies \/ TrustdLoses \/ Enroll \/ Update
    BY <2>3, <2>8 DEF OptdDies, TrustdLoses, Enroll, Update, Stored, workloads
  <2>9. ASSUME NEW q \in Run, Launch(q)
        PROVE  proven[r]
    <3>1. q = r
      BY <2>1, <2>2, <2>9 DEF Launch, TypeOK
    <3>2. pc[r] = "launch"
      BY <2>9, <3>1 DEF Launch
    <3>3. QED
      BY <2>2, <3>2 DEF RunConsistent, VerifyConsistent
  <2>10. QED
    BY <1>1, <2>4, <2>5, <2>6, <2>7, <2>8, <2>9 DEF Next, Manager
<1>2. IInv /\ [Next]_vars => [Launched]_vars
  BY <1>1
<1>3. QED
  BY <1>2, Invariant, PTL DEF Spec, LaunchedWasTrusted

\* The scan finds the two best scores of whatever a workload has measured, and
\* of every short list of small scores.
THEOREM ScanTwoBest == Spec => []ScanFindsTheTwoBest
<1>1. EverySmallScan
  <2>1. SUFFICES ASSUME NEW scores \in SmallScores PROVE TwoBest(scores)
    BY DEF EverySmallScan
  <2>2. scores \in Seq(Int) /\ Len(scores) > 1
    BY DEF SmallScores
  <2>3. QED
    BY <2>2, ScanFinds
<1>2. TypeOK => \A r \in Run : measured[r] # None => TwoBest(measured[r].scores)
  BY ResultsAssumption, ScanFinds DEF TypeOK
<1>3. TypeOK => ScanFindsTheTwoBest
  BY <1>1, <1>2 DEF ScanFindsTheTwoBest
<1>4. QED
  BY <1>3, TypeCorrect, PTL

-----------------------------------------------------------------------------
(* The decision of a run and its scenario.                                 *)

\* What is proposed from the metrics of a workload is what its scenario says.
LEMMA ProposalFits ==
    ASSUME NEW i \in Results
    PROVE  Outcome(Propose(Metrics(i.sample, i.scores))) = Scenario(i)
<1> DEFINE metrics == Metrics(i.sample, i.scores)
<1>1. metrics.margin = Margin(i.scores) /\ metrics.density = Density[i.sample]
  BY DEF Metrics
<1>2. /\ Margin(i.scores) \in Int /\ Density[i.sample] \in Int
      /\ Margin(i.scores) >= 500 <=> ClearWinner(i.scores)
      /\ Density[i.sample] > 100 <=> i.sample = "noise"
  BY ResultsAssumption, MarginMeansWinner, DensitySeparates
<1> HIDE DEF metrics
<1>3. Propose(metrics) = CASE i.sample = "noise" -> "reject_input"
                           [] i.sample # "noise" /\ ~ClearWinner(i.scores) ->
                                "request_high_accuracy_profile"
                           [] OTHER -> "keep_current_profile"
  BY <1>1, <1>2 DEF Propose
<1>4. QED
  BY <1>3 DEF Scenario, metrics

LEMMA OutcomeProposal ==
    /\ \A p \in Action : Outcome(p).proposal = p /\ Outcome(p).proposal # "none"
    /\ \A p \in {"unasked", "asked", "none", "unavailable"} :
        Outcome(p).proposal = "none" /\ Outcome(p).decision = "rejected"
BY DEF Action, Outcome

\* A step that measures, proposes and records nothing keeps what fits.
LEMMA FitKeeps ==
    ASSUME FitInv, UNCHANGED <<measured, log>>,
           \A r \in Run : proposal'[r] \in {proposal[r], "unasked", "asked"},
           \A r \in Run : Recording(r)' => Recording(r) /\ request'[r] = request[r]
    PROVE  FitInv'
<1>1. \A r, outcome : Fits(r, outcome)' <=> Fits(r, outcome)
  BY DEF Fits
<1>2. \A r \in Run : ProposalConsistent(r)'
  BY <1>1 DEF FitInv, ProposalConsistent, Action
<1>3. DecisionFitsRun'
  BY DEF FitInv, DecisionFitsRun
<1>4. QED
  BY <1>2, <1>3 DEF FitInv

\* Managers that ask trustd for something else, or are told something.
LEMMA FitOther ==
    ASSUME IInv, FitInv,
           \/ \E r \in Run : \/ Load(r) \/ LoadFails(r) \/ Kill(r)
                            \/ Verified(r) \/ Launch(r) \/ Reap(r) \/ Ask(r)
                            \/ Recorded(r) \/ Report(r) \/ Reported(r)
                            \/ OpenMetrics(r) \/ WorkerExits(r)
           \/ OptdDies \/ TrustdLoses \/ Enroll \/ Update
           \/ UNCHANGED vars
    PROVE  FitInv'
<1> USE DEF managers, workloads, optimizer, history, registry
<1>1. TypeOK
  BY DEF IInv
<1>2. UNCHANGED <<measured, log>>
  BY DEF Load, LoadFails, Kill, Verified, Launch, Reap, Ask, Recorded, Report,
    Reported, OpenMetrics, WorkerExits, OptdDies, TrustdLoses, Enroll, Update, Stored, vars
<1>3. \A r \in Run : proposal'[r] \in {proposal[r], "unasked", "asked"}
  BY <1>1 DEF Load, LoadFails, Kill, Verified, Launch, Reap, Ask, Recorded, Report,
    Reported, OpenMetrics, WorkerExits, OptdDies, TrustdLoses, Enroll, Update, Stored,
    vars, TypeOK
<1>4. \A r \in Run : Recording(r)' => Recording(r) /\ request'[r] = request[r]
  <2> SUFFICES ASSUME NEW r \in Run
               PROVE  Recording(r)' => Recording(r) /\ request'[r] = request[r]
    OBVIOUS
  <2>1. request \in [Run -> Registry!Request \cup {None}]
    BY <1>1 DEF TypeOK, Registry!TypeOK
  <2>2. CASE UNCHANGED request
    BY <2>2 DEF Recording
  <2>3. ASSUME NEW q \in Run, Load(q) \/ Report(q)
        PROVE  Recording(r)' => Recording(r) /\ request'[r] = request[r]
    <3>1. PICK a \in [cmd : {"VERIFY", "REPORT_DECISION"},
                      arg : {f.trust : f \in Offered} \cup {None}] :
              request' = [request EXCEPT ![q] = a]
      BY <2>3 DEF Load, Report, Registry!Call
    <3>2. QED
      BY <2>1, <3>1 DEF Recording
  <2>4. ASSUME NEW q \in Run, Registry!Return(q)
        PROVE  Recording(r)' => Recording(r) /\ request'[r] = request[r]
    BY <2>1, <2>4 DEF Registry!Return, Recording
  <2>5. CASE TrustdLoses
    BY <2>5 DEF TrustdLoses, Registry!Lose, Recording
  <2>6. QED
    BY <2>2, <2>3, <2>4, <2>5 DEF LoadFails, Kill, Verified, Launch, Reap, Ask,
      Recorded, Receive, Reported, OpenMetrics, WorkerExits, OptdDies, Enroll, Update,
      Stored, vars
<1>5. QED
  BY <1>2, <1>3, <1>4, FitKeeps

\* The results of a workload come before anything is proposed from them.
LEMMA FitMeasured ==
    ASSUME IInv, FitInv, NEW r \in Run, WriteMetrics(r)
    PROVE  FitInv'
<1>1. TypeOK /\ RunConsistent(r) /\ worker[r] = "open"
  BY DEF IInv, WriteMetrics
<1>2. ~Recording(r) /\ ~Logged(r) /\ proposal[r] = "unasked"
  BY <1>1 DEF RunConsistent, FileConsistent, Measured
<1>3. /\ UNCHANGED <<proposal, log, request>>
      /\ \A q \in Run \ {r} : measured'[q] = measured[q]
  BY <1>1 DEF WriteMetrics, TypeOK, optimizer, history, registry
<1>4. \A q \in Run : ProposalConsistent(q)'
  BY <1>2, <1>3 DEF FitInv, ProposalConsistent, Fits, Recording, Action
<1>5. DecisionFitsRun'
  <2>1. \A i \in DOMAIN log : log[i].run # r /\ log[i].run \in Run
    BY <1>1, <1>2 DEF Logged, TypeOK, Record
  <2>2. QED
    BY <1>3, <2>1 DEF FitInv, DecisionFitsRun
<1>6. QED
  BY <1>4, <1>5 DEF FitInv

\* optd reads the run's own file.
LEMMA FitProposed ==
    ASSUME IInv, FitInv, NEW r \in Run, OptdAnswers(r)
    PROVE  FitInv'
<1>1. TypeOK /\ RunConsistent(r) /\ proposal[r] = "asked"
  BY DEF IInv, OptdAnswers
<1>2. /\ proposal' = [proposal EXCEPT ![r] = Reading(file[r])]
      /\ UNCHANGED <<measured, log, request>>
  BY DEF OptdAnswers, workloads, history, registry, MetricsPath
<1>3. \A q, outcome : Fits(q, outcome)' <=> Fits(q, outcome)
  BY <1>2 DEF Fits
<1>4. Reading(file[r]) \in Action => Fits(r, Outcome(Reading(file[r])))
  <2>1. SUFFICES ASSUME Reading(file[r]) \in Action
                 PROVE  Fits(r, Outcome(Reading(file[r])))
    OBVIOUS
  <2>2. /\ file[r] # None /\ file[r].metrics # None
        /\ Reading(file[r]) = Propose(file[r].metrics)
    BY <2>1 DEF Reading, Action
  <2>3. file[r].by = r
    BY <1>1 DEF RunConsistent, FileConsistent, Measured, MetricsPath
  <2>4. /\ measured[r] \in Results /\ measured[r] # None
        /\ file[r].metrics = Metrics(measured[r].sample, measured[r].scores)
    BY <1>1, <2>2, <2>3 DEF RunConsistent, FileConsistent, TypeOK
  <2>5. Outcome(Reading(file[r])) = Scenario(measured[r])
    BY <2>2, <2>4, ProposalFits
  <2>6. QED
    BY <2>1, <2>4, <2>5, OutcomeProposal DEF Fits
<1>5. \A q \in Run : ProposalConsistent(q)'
  <2>1. ASSUME NEW q \in Run
        PROVE  proposal'[q] \in Action => Fits(q, Outcome(proposal'[q]))
    BY <1>1, <1>2, <1>4 DEF FitInv, ProposalConsistent, TypeOK
  <2>2. ASSUME NEW q \in Run
        PROVE  Recording(q)' => Fits(q, request'[q].arg.outcome)
    BY <1>2 DEF FitInv, ProposalConsistent, Recording
  <2>3. QED
    BY <1>3, <2>1, <2>2 DEF ProposalConsistent
<1>6. DecisionFitsRun'
  BY <1>2 DEF FitInv, DecisionFitsRun
<1>7. QED
  BY <1>5, <1>6 DEF FitInv

\* The manager sends what it was told, or a rejection.
LEMMA FitDecided ==
    ASSUME IInv, FitInv, NEW r \in Run, Proposed(r) \/ NoOptd(r)
    PROVE  FitInv'
<1>1. TypeOK
  BY DEF IInv
<1>2. PICK outcome : Decide(r, outcome) /\ Fits(r, outcome)
  <2>1. CASE Proposed(r)
    <3>1. proposal[r] \in Action \cup {"unasked", "none"}
      BY <1>1, <2>1 DEF Proposed, TypeOK
    <3>2. Fits(r, Outcome(proposal[r]))
      BY <3>1, OutcomeProposal DEF FitInv, ProposalConsistent, Fits
    <3>3. QED
      BY <2>1, <3>2 DEF Proposed
  <2>2. CASE NoOptd(r)
    BY <2>2, OutcomeProposal DEF NoOptd, Fits
  <2>3. QED
    BY <2>1, <2>2
<1>3. /\ proposal' = [proposal EXCEPT ![r] = "unasked"]
      /\ request' = [request EXCEPT ![r] = [cmd |-> "RECORD_DECISION",
                                           arg |-> Entry(r, outcome)]]
      /\ UNCHANGED <<measured, log>>
  BY <1>2 DEF Decide, Registry!Call, workloads, history
<1>4. \A q, o : Fits(q, o)' <=> Fits(q, o)
  BY <1>3 DEF Fits
<1>5. ASSUME NEW q \in Run
      PROVE  ProposalConsistent(q)'
  <2>1. proposal'[q] \in Action => Fits(q, Outcome(proposal'[q]))
    BY <1>1, <1>3 DEF FitInv, ProposalConsistent, TypeOK, Action
  <2>2. Recording(q)' => Fits(q, request'[q].arg.outcome)
    <3>1. CASE q = r
      BY <1>1, <1>2, <1>3, <3>1 DEF TypeOK, Registry!TypeOK, Entry
    <3>2. CASE q # r
      BY <1>1, <1>3, <3>2 DEF FitInv, ProposalConsistent, Recording, TypeOK,
        Registry!TypeOK
    <3>3. QED
      BY <3>1, <3>2
  <2>3. QED
    BY <1>4, <2>1, <2>2 DEF ProposalConsistent
<1>6. DecisionFitsRun'
  BY <1>3 DEF FitInv, DecisionFitsRun
<1>7. QED
  BY <1>5, <1>6 DEF FitInv

LEMMA FitRecorded ==
    ASSUME IInv, FitInv, NEW r \in Run, Trustd(r)
    PROVE  FitInv'
<1>1. TypeOK /\ ManagerConsistent(r)
  BY DEF IInv, RunConsistent
<1>2. /\ UNCHANGED request
      /\ \/ lastDecision' = lastDecision
         \/ Recording(r) /\ lastDecision' = request[r].arg
  BY <1>1, Serves DEF Trustd
<1>3. /\ UNCHANGED <<measured, proposal>>
      /\ log \in Seq(Record)
      /\ log' = IF lastDecision' = lastDecision THEN log ELSE Append(log, lastDecision')
  BY <1>1 DEF Trustd, workloads, optimizer, TypeOK
<1>4. \A q, o : Fits(q, o)' <=> Fits(q, o)
  BY <1>3 DEF Fits
<1>5. \A q \in Run : ProposalConsistent(q)'
  BY <1>2, <1>3, <1>4 DEF FitInv, ProposalConsistent, Recording
<1>6. DecisionFitsRun'
  <2>1. CASE lastDecision' = lastDecision
    BY <1>3, <2>1 DEF FitInv, DecisionFitsRun
  <2>2. CASE lastDecision' # lastDecision
    <3>1. /\ Recording(r) /\ lastDecision' = request[r].arg
          /\ request[r].arg.run = r /\ Fits(r, request[r].arg.outcome)
      BY <1>1, <1>2, <2>2 DEF ManagerConsistent, FitInv, ProposalConsistent
    <3>2. request[r].arg \in Record
      BY <1>1, <3>1 DEF TypeOK, Registry!TypeOK, Registry!Request, Recording,
        ManagerConsistent, Registry!ManifestCommand, Registry!StoreCommand
    <3>3. \A i \in DOMAIN log' :
            \/ i \in DOMAIN log /\ log'[i] = log[i]
            \/ log'[i] = request[r].arg
      BY <1>3, <2>2, <3>1, <3>2
    <3>4. \A i \in DOMAIN log : Fits(log[i].run, log[i].outcome)
      BY DEF FitInv, DecisionFitsRun, Fits
    <3>5. \A i \in DOMAIN log' : Fits(log'[i].run, log'[i].outcome)
      BY <3>1, <3>3, <3>4
    <3>6. QED
      BY <1>3, <3>5 DEF DecisionFitsRun, Fits
  <2>3. QED
    BY <2>1, <2>2
<1>7. QED
  BY <1>5, <1>6 DEF FitInv

\* The decision that is kept for a run is the scenario of its own input and
\* result, or a rejection, for any number of runs, whatever optd, the other
\* runs and whoever kills them do.
THEOREM DecisionFits == Spec => []DecisionFitsRun
<1>1. Init => FitInv
  BY DEF Init, Registry!Init, FitInv, ProposalConsistent, DecisionFitsRun,
    Recording, Action
<1>2. IInv /\ FitInv /\ [Next]_vars => FitInv'
  BY FitOther, FitMeasured, FitProposed, FitDecided, FitRecorded
    DEF Next, Manager, Worker
<1>3. FitInv => DecisionFitsRun
  BY DEF FitInv
<1>4. QED
  BY <1>1, <1>2, <1>3, Invariant, PTL DEF Spec
=============================================================================
