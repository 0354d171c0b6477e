--------------------------- MODULE RuntimeManager ---------------------------
(***************************************************************************)
(* Runs of the runtime manager, runtime/runtime_manager.c, beside the      *)
(* processes they meet: trustd, which verifies the manifest and keeps the  *)
(* decision; the workload, a process of its own that writes a metrics      *)
(* file; optd, which reads that file and proposes; and tearictl, which     *)
(* enrolls and updates manifests at any time.                              *)
(*                                                                         *)
(* trustd is a TrustRegistry, which its two back ends implement.  Every    *)
(* process may be killed at any point: a manager leaves its workload, its  *)
(* request and its question behind, trustd's callers lose their answers,   *)
(* and optd is not started again.  A write to a socket whose other end is  *)
(* gone kills the writer (SIGPIPE): Kill for a manager, OptdAnswers for    *)
(* optd.  The run identifier, process id and time, is the member of Run.   *)
(***************************************************************************)
EXTENDS Inference

CONSTANTS
    Run,        \* the runs of the manager, one process each
    Artifact, Version, Backend, Hash,
    Offered,    \* the manifest and profile files that a manager may be given
    Supported,  \* the back ends the platform has
    Results,    \* what a workload may be given and its network computes
    None

ASSUME SetAssumption == Version \subseteq Int /\ Supported \subseteq Backend
ASSUME ResultsAssumption ==
    /\ Results # {}
    /\ \A i \in Results :
        i.sample \in Sample /\ i.scores \in Seq(Int) /\ Len(i.scores) > 1

Record ==
    {[run |-> r, artifact |-> a, outcome |-> o] :
        r \in Run, a \in Artifact, o \in OutcomeSet}

VARIABLES
    pc,         \* where each run is
    loaded,     \* the manifest of a manager that runs, None without one
    worker,     \* its workload process
    file,       \* the metrics files, by path
    proposal,   \* what has become of its question to optd
    optd,       \* "up" or "down"
    measured,   \* history: what its workload measured
    proven,     \* history: was its manifest trusted since it asked to verify?
    log,        \* history: the decisions recorded, in order
    trusted, lastDecision, stage, request, answer   \* TrustRegistry

managers == <<pc, loaded>>
workloads == <<worker, file, measured>>
optimizer == <<proposal, optd>>
history == <<proven, log>>
registry == <<trusted, lastDecision, stage, request, answer>>
vars == <<managers, workloads, optimizer, history, registry>>

Registry == INSTANCE TrustRegistry WITH Client <- Run, Decision <- Record

\* What tear_profile_load and tear_manifest_load get out of their files.  Of a
\* profile, the name of the metrics file is in MetricsPath, and nobody reads
\* which adaptations it allows.
Profile == [artifact : Artifact, backend : Backend]
Files == [trust : Registry!Manifest, capable : BOOLEAN, profile : Profile]

ASSUME OfferedAssumption == Offered \subseteq Files

\* The paths of metrics files: build_metrics_path appends the run identifier.
\* In the mutant it does not.
SharedPath(r) == CHOOSE q \in Run : TRUE
MetricsPath(r) == r

Written == {Metrics(i.sample, i.scores) : i \in Results}

\* A metrics file, with the run that wrote it, complete or not.
Content == [by : Run \cup {None}, metrics : Written \cup {None}]

ASSUME NoneAssumption ==
    /\ None \notin Run /\ None \notin Artifact /\ None \notin Results
    /\ None \notin Files /\ None \notin Written /\ None \notin Content
    /\ None \notin Record /\ None \notin Registry!Manifest
    /\ None \notin Registry!Request /\ None \notin Registry!Answer

\* A run identifier may come again after a reboot, in front of an old file.
Stale == [by |-> None, metrics |-> CHOOSE w \in Written : TRUE]

Active == {"verify", "launch", "wait", "ask", "asked", "record", "report", "reporting"}
Ended == {"done", "failed", "killed"}

TypeOK ==
    /\ Registry!TypeOK
    /\ pc \in [Run -> {"idle"} \cup Active \cup Ended]
    /\ loaded \in [Run -> Offered \cup {None}]
    /\ worker \in [Run -> {"none", "started", "open", "written", "ok", "bad"}]
    /\ file \in [Run -> Content \cup {None}]
    /\ proposal \in [Run -> Action \cup {"unasked", "asked", "none"}]
    /\ optd \in {"up", "down"}
    /\ measured \in [Run -> Results \cup {None}]
    /\ proven \in [Run -> BOOLEAN]
    /\ log \in Seq(Record)

Init ==
    /\ Registry!Init
    /\ pc = [r \in Run |-> "idle"]
    /\ loaded = [r \in Run |-> None]
    /\ worker = [r \in Run |-> "none"]
    /\ file \in [Run -> {Stale, None}]
    /\ proposal = [r \in Run |-> "unasked"]
    /\ optd = "up"
    /\ measured = [r \in Run |-> None]
    /\ proven = [r \in Run |-> FALSE]
    /\ log = <<>>

Goto(r, label) ==
    /\ pc' = [pc EXCEPT ![r] = label]
    /\ loaded' = IF label \in Ended THEN [loaded EXCEPT ![r] = None] ELSE loaded

-----------------------------------------------------------------------------
(* Before the workload.                                                    *)

Trusts(t, m) == t[m.artifact] = m

\* An event about a manifest whose version is not positive aborts.
EventAllowed(m) == m.version > 0
Available(profile) == profile.backend \in Supported
ProfileMatches(m, profile) ==
    /\ profile.artifact = m.artifact
    /\ profile.backend = m.backend

Load(r) ==
    /\ pc[r] = "idle"
    /\ \E f \in Offered :
        /\ EventAllowed(f.trust)
        /\ Available(f.profile)
        /\ ProfileMatches(f.trust, f.profile)
        /\ loaded' = [loaded EXCEPT ![r] = f]
        /\ proven' = [proven EXCEPT ![r] = Trusts(trusted, f.trust)]
        /\ Registry!Call(r, [cmd |-> "VERIFY", arg |-> f.trust])
    /\ pc' = [pc EXCEPT ![r] = "verify"]
    /\ UNCHANGED <<workloads, optimizer, log>>

LoadFails(r) ==
    /\ pc[r] = "idle"
    /\ Goto(r, "failed")
    /\ UNCHANGED <<workloads, optimizer, history, registry>>

\* The answer of trustd arrives, or the connection was refused or broken.
Receive(r) ==
    \/ Registry!Return(r)
    \/ stage[r] = "idle" /\ UNCHANGED registry

\* trust_client_expect_ok; in the mutant every reply counts as success.
AnyReply(r) == answer[r].kind # "LOST"
ReplyOk(r) == answer[r].kind = "OK"

Verified(r) ==
    /\ pc[r] = "verify"
    /\ Receive(r)
    /\ Goto(r, IF ReplyOk(r) THEN "launch" ELSE "failed")
    /\ UNCHANGED <<workloads, optimizer, history>>

-----------------------------------------------------------------------------
(* The workload.  Only a run that needs a metrics file removes an old one, *)
(* in the mutant none does.                                                *)

OldFileStays(r) == file
Unlink(r) ==
    IF loaded[r].capable THEN [file EXCEPT ![MetricsPath(r)] = None] ELSE file

Launch(r) ==
    /\ pc[r] = "launch"
    /\ file' = Unlink(r)
    /\ \/ Goto(r, "wait") /\ worker' = [worker EXCEPT ![r] = "started"]
       \/ Goto(r, "failed") /\ UNCHANGED worker
    /\ proven' = [proven EXCEPT ![r] = FALSE]
    /\ UNCHANGED <<measured, optimizer, log, registry>>

\* tear_metric_init truncates the file.
OpenMetrics(r) ==
    /\ worker[r] = "started"
    /\ worker' = [worker EXCEPT ![r] = "open"]
    /\ file' = [file EXCEPT ![MetricsPath(r)] = [by |-> r, metrics |-> None]]
    /\ UNCHANGED <<managers, measured, optimizer, history, registry>>

\* Both of the metrics that optd needs are in the file.
WriteMetrics(r) ==
    /\ worker[r] = "open"
    /\ worker' = [worker EXCEPT ![r] = "written"]
    /\ \E i \in Results :
        /\ measured' = [measured EXCEPT ![r] = i]
        /\ file' = [file EXCEPT ![MetricsPath(r)] =
                        [by |-> r, metrics |-> Metrics(i.sample, i.scores)]]
    /\ UNCHANGED <<managers, optimizer, history, registry>>

\* The end of the workload: a program that writes other metrics (demo_model),
\* or none, ends well too, and any may fail or be killed.
WorkerExits(r) ==
    /\ worker[r] \in {"started", "open", "written"}
    /\ \E end \in {"ok", "bad"} : worker' = [worker EXCEPT ![r] = end]
    /\ UNCHANGED <<managers, file, measured, optimizer, history, registry>>

\* What follows tear_workload_run_checked.
AfterRun(r) ==
    CASE worker[r] = "bad" -> "failed"
      [] worker[r] = "ok" /\ ~loaded[r].capable -> "done"
      [] worker[r] = "ok" /\ loaded[r].capable ->
            IF file[MetricsPath(r)] = None THEN "failed" ELSE "ask"

Reap(r) ==
    /\ pc[r] = "wait"
    /\ worker[r] \in {"ok", "bad"}
    /\ Goto(r, AfterRun(r))
    /\ UNCHANGED <<workloads, optimizer, history, registry>>

-----------------------------------------------------------------------------
(* The question to optd.                                                   *)

Ask(r) ==
    /\ pc[r] = "ask"
    /\ optd = "up"
    /\ proposal' = [proposal EXCEPT ![r] = "asked"]
    /\ Goto(r, "asked")
    /\ UNCHANGED <<workloads, optd, history, registry>>

\* load_metrics needs both metrics: the file may be missing, or incomplete.
Reading(content) ==
    IF content # None /\ content.metrics # None THEN Propose(content.metrics)
                                               ELSE "none"

\* handle_propose: the file is read when the question is served.
OptdAnswers(r) ==
    /\ optd = "up"
    /\ proposal[r] = "asked"
    /\ proposal' = [proposal EXCEPT ![r] = Reading(file[MetricsPath(r)])]
    /\ optd' = IF pc[r] = "killed" THEN "down" ELSE "up"
    /\ UNCHANGED <<managers, workloads, history, registry>>

OptdDies ==
    /\ optd = "up"
    /\ optd' = "down"
    /\ UNCHANGED <<managers, workloads, proposal, history, registry>>

\* What trustd is asked to keep; the mutant leaves out the run identifier.
NoRun(r, outcome) ==
    [artifact |-> loaded[r].profile.artifact, outcome |-> outcome]
Entry(r, outcome) ==
    [run |-> r, artifact |-> loaded[r].profile.artifact, outcome |-> outcome]

\* The decision goes to trustd, whether optd has answered or not.
Decide(r, outcome) ==
    /\ Registry!Call(r, [cmd |-> "RECORD_DECISION", arg |-> Entry(r, outcome)])
    /\ proposal' = [proposal EXCEPT ![r] = "unasked"]
    /\ Goto(r, "record")
    /\ UNCHANGED <<workloads, optd, history>>

Proposed(r) ==
    /\ pc[r] = "asked"
    /\ proposal[r] # "asked"
    /\ Decide(r, Outcome(proposal[r]))

\* A mutant: the manager waits for an optd that is gone.
WaitForOptd(r) ==
    /\ pc[r] \in {"ask", "asked"}
    /\ optd = "down"
    /\ UNCHANGED vars

\* connect is refused, or read finds the end of the connection.
NoOptd(r) ==
    /\ pc[r] \in {"ask", "asked"}
    /\ proposal[r] \in {"unasked", "asked"}
    /\ optd = "down"
    /\ Decide(r, Outcome("unavailable"))

-----------------------------------------------------------------------------
(* The decision in trustd.  The run ends with status 0 either way.         *)

\* A mutant: the report follows a failed recording too.
RecordedUnchecked(r) ==
    /\ pc[r] = "record"
    /\ Receive(r)
    /\ Goto(r, "report")
    /\ UNCHANGED <<workloads, optimizer, history>>

Recorded(r) ==
    /\ pc[r] = "record"
    /\ Receive(r)
    /\ Goto(r, IF ReplyOk(r) THEN "report" ELSE "done")
    /\ UNCHANGED <<workloads, optimizer, history>>

Report(r) ==
    /\ pc[r] = "report"
    /\ Registry!Call(r, [cmd |-> "REPORT_DECISION", arg |-> None])
    /\ Goto(r, "reporting")
    /\ UNCHANGED <<workloads, optimizer, history>>

Reported(r) ==
    /\ pc[r] = "reporting"
    /\ Receive(r)
    /\ Goto(r, "done")
    /\ UNCHANGED <<workloads, optimizer, history>>

Kill(r) ==
    /\ pc[r] \in Active
    /\ Goto(r, "killed")
    /\ UNCHANGED <<workloads, optimizer, history, registry>>

-----------------------------------------------------------------------------
(* trustd, and its other callers.                                          *)

Trustd(r) ==
    /\ Registry!Serve(r)
    /\ log' = IF lastDecision' = lastDecision THEN log ELSE Append(log, lastDecision')
    /\ UNCHANGED <<managers, workloads, optimizer, proven>>

TrustdLoses ==
    /\ \E S \in SUBSET Run : S # {} /\ Registry!Lose(S)
    /\ UNCHANGED <<managers, workloads, optimizer, history>>

\* A request of tearictl, or of the supervisor's provisioning, takes effect.
\* What its caller sees of it is not followed here.
Stored(m) ==
    /\ trusted' = [trusted EXCEPT ![m.artifact] = m]
    /\ proven' = [r \in Run |->
                    \/ proven[r]
                    \/ /\ pc[r] = "verify" /\ stage[r] = "pending"
                       /\ Trusts(trusted', loaded[r].trust)]
    /\ UNCHANGED <<managers, workloads, optimizer, log, lastDecision, stage, request, answer>>

Enroll == \E m \in Registry!Manifest : Stored(m)

Update ==
    \E m \in Registry!Manifest :
        /\ trusted[m.artifact] # None
        /\ Registry!UpdateAllowed(trusted[m.artifact], m)
        /\ Stored(m)

-----------------------------------------------------------------------------
Manager(r) ==
    \/ Verified(r) \/ Launch(r) \/ Reap(r)
    \/ Ask(r) \/ Proposed(r) \/ NoOptd(r)
    \/ Recorded(r) \/ Report(r) \/ Reported(r)

Worker(r) == OpenMetrics(r) \/ WriteMetrics(r) \/ WorkerExits(r)

Next ==
    \/ \E r \in Run :
        \/ Load(r) \/ LoadFails(r) \/ Manager(r) \/ Kill(r)
        \/ Worker(r) \/ OptdAnswers(r) \/ Trustd(r)
    \/ OptdDies
    \/ TrustdLoses
    \/ Enroll
    \/ Update

Spec == Init /\ [][Next]_vars

\* A run that has started goes on, its workload ends, and trustd and optd, as
\* long as they are there, serve what they are asked.
FairSpec ==
    /\ Spec
    /\ \A r \in Run :
        /\ WF_vars(Manager(r))
        /\ WF_vars(Worker(r))
        /\ WF_vars(OptdAnswers(r))
        /\ WF_vars(Trustd(r))
=============================================================================
