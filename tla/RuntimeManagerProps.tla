------------------------- MODULE RuntimeManagerProps -------------------------
(***************************************************************************)
(* What a run of the runtime manager must guarantee: which model it may    *)
(* launch, what its exit status and its decision say about its own         *)
(* workload, and which decision it reports.                                *)
(***************************************************************************)
EXTENDS RuntimeManager, InferenceProps

\* The manifest of a launched workload was the trusted one at some moment
\* after the manager asked trustd to verify it: no launch on an answer that
\* was refused, lost, or meant for an earlier state of the device.
LaunchedWasTrusted ==
    [][\A r \in Run : worker[r] = "none" /\ worker'[r] # "none" => proven[r]]_vars

Logged(r) == \E i \in DOMAIN log : log[i].run = r

\* Status 0, and a decision that is asked for or stored, stand for a workload
\* that ended well and, if the run is to be optimised, wrote this run's
\* metrics file itself: the file is not left over and not another run's.
RanAndMeasured ==
    \A r \in Run :
        /\ pc[r] = "done" => worker[r] = "ok"
        /\ pc[r] \in {"ask", "asked", "record", "report", "reporting"} \/ Logged(r) =>
            /\ worker[r] = "ok"
            /\ file[MetricsPath(r)] # None
            /\ file[MetricsPath(r)].by = r

\* The decision that trustd keeps for a run is the scenario of that very run's
\* input and result, whatever other runs do to optd and to their files; without
\* a proposal it is a rejection.
DecisionFitsRun ==
    \A i \in DOMAIN log :
        LET outcome == log[i].outcome
            own == measured[log[i].run] IN
        IF outcome.proposal = "none" THEN outcome.decision = "rejected"
                                     ELSE own # None /\ outcome = Scenario(own)

\* The decision d was recorded for r, or after the decision of r.
FromRun(r, d) ==
    \E i, j \in DOMAIN log : i <= j /\ log[i].run = r /\ log[j] = d

\* The decision that a run gets reported is its own, or one recorded after it:
\* never one that was there before.
ReportedNotOlder ==
    \A r \in Run :
        /\ pc[r] = "reporting"
        /\ answer[r] # None
        /\ answer[r].kind = "DECISION"
        => FromRun(r, answer[r].val)

\* The scan of mnist_get_confidence finds the first of the largest scores, and
\* as second the largest of the others, wherever they are and whether or not
\* they are equal: for all short lists of small scores, and for each list that
\* a workload has measured.
ScanFindsTheTwoBest ==
    /\ EverySmallScan
    /\ \A r \in Run : measured[r] # None => TwoBest(measured[r].scores)

\* A run that has started ends, whether trustd and optd live or not, as long as
\* its workload ends.
EveryRunEnds == \A r \in Run : pc[r] # "idle" ~> pc[r] \in Ended

-----------------------------------------------------------------------------
(***************************************************************************)
(* The inductive invariant behind the safety properties.  A run owns its   *)
(* place in every function of the state; what it leaves behind when it is  *)
(* killed, a request in trustd and a question to optd, keeps what it had   *)
(* when it was sent.                                                       *)
(***************************************************************************)
Measured(r) ==
    /\ worker[r] = "ok"
    /\ file[MetricsPath(r)] # None
    /\ file[MetricsPath(r)].by = r

\* The outcome stands for the run's own input and result.
Fits(r, outcome) ==
    IF outcome.proposal = "none" THEN outcome.decision = "rejected"
        ELSE measured[r] # None /\ outcome = Scenario(measured[r])

Recording(r) ==
    /\ request[r] # None
    /\ request[r].cmd = "RECORD_DECISION"

\* The manager of a run, and what it has asked trustd.
ManagerConsistent(r) ==
    /\ pc[r] \in Active => loaded[r] # None
    /\ pc[r] \in {"idle", "verify", "launch"} => worker[r] = "none"
    /\ pc[r] \in {"verify", "record", "reporting"} =>
        stage[r] = "pending" \/ answer[r] # None
    /\ stage[r] = "pending" => request[r] # None
    /\ request[r] # None =>
        request[r].cmd \in {"VERIFY", "RECORD_DECISION", "REPORT_DECISION"}
    /\ pc[r] = "reporting" /\ stage[r] = "pending" => request[r].cmd = "REPORT_DECISION"
    /\ pc[r] = "record" /\ stage[r] = "pending" => Recording(r)
    /\ Recording(r) => request[r].arg # None /\ request[r].arg.run = r

\* An OK to VERIFY, and the launch after it, come from a manifest that was
\* trusted since the question.
VerifyConsistent(r) ==
    /\ pc[r] = "verify" =>
        /\ stage[r] = "pending" =>
            /\ request[r] = [cmd |-> "VERIFY", arg |-> loaded[r].trust]
            /\ Trusts(trusted, loaded[r].trust) => proven[r]
        /\ answer[r] # None /\ answer[r].kind = "OK" => proven[r]
    /\ pc[r] = "launch" => proven[r]

\* From its launch on, the metrics file of a run is its own.
FileConsistent(r) ==
    /\ pc[r] = "wait" /\ loaded[r].capable =>
        file[r] = None \/ file[r].by = r
    /\ file[r] # None /\ file[r].by = r /\ file[r].metrics # None =>
        /\ measured[r] # None
        /\ file[r].metrics = Metrics(measured[r].sample, measured[r].scores)
    /\ \/ pc[r] \in {"ask", "asked", "record", "report", "reporting"}
       \/ proposal[r] # "unasked"
       \/ Recording(r)
       \/ Logged(r)
       => Measured(r)
    /\ pc[r] = "done" => worker[r] = "ok"

\* The log ends with the decision that trustd keeps.
LogConsistent ==
    /\ log = <<>> => lastDecision = None
    /\ log # <<>> => lastDecision = log[Len(log)]

\* A run that is told OK has its decision in the log, and what it gets reported
\* comes from there or from after it.
ReportConsistent(r) ==
    /\ pc[r] = "record" /\ answer[r] # None /\ answer[r].kind = "OK" => Logged(r)
    /\ pc[r] \in {"report", "reporting"} => Logged(r)
    /\ pc[r] = "reporting" /\ answer[r] # None /\ answer[r].kind = "DECISION" =>
        FromRun(r, answer[r].val)

RunConsistent(r) ==
    /\ ManagerConsistent(r)
    /\ VerifyConsistent(r)
    /\ FileConsistent(r)
    /\ ReportConsistent(r)

\* What optd has proposed, what is on its way to trustd and what is in the log
\* fits the run.
ProposalConsistent(r) ==
    /\ proposal[r] \in Action => Fits(r, Outcome(proposal[r]))
    /\ Recording(r) => Fits(r, request[r].arg.outcome)

IInv ==
    /\ TypeOK
    /\ LogConsistent
    /\ \A r \in Run : RunConsistent(r)

FitInv ==
    /\ \A r \in Run : ProposalConsistent(r)
    /\ DecisionFitsRun
=============================================================================
