# TLA+ models and proofs for the trusted edge AI runtime (TEAR)

This directory holds a verification development of the C program in `src/`:
TLA+ modules translated from the source, TLC configurations that check them on
small instances, and TLAPS proofs of what matters most for every instance. All
line numbers are those of the commit in `src/`; `PROJECT.json` maps each
definition to the lines it stands for.

## 1. Inventory of the system

| component | source | state it keeps | operations |
|---|---|---|---|
| trust client library | `runtime/trust_client.c` | none; one connection per call | enroll, update, verify, report, record_decision, report_decision |
| trustd | `runtime/trustd.c` | the socket, one request at a time | `ENROLL`, `UPDATE`, `VERIFY`, `REPORT`, `RECORD_DECISION`, `REPORT_DECISION`, each with a file and an OP-TEE back end |
| trusted state, file back end | `runtime/trusted_state.c` | the state file (one line per artifact), its temporary file, the decision log | store, load_artifact, load, append_decision, report_decision |
| OP-TEE client library | `optee/ca/tear_optee_client.c` | none; one session per call | the same six commands |
| trusted application | `optee/ta/tear_ta/ta_entry.c` | two persistent objects: the table of records and the last decision | the same six commands |
| supervisor | `runtime/supervisor.c` | `supervisor_state`, `supervisor_running`, the children trustd and optd | start and stop of trustd and optd; `PING`, `STATUS`, `PROVISION`, `PROVISION_PLAN`, `UPDATE_MODEL`, `REPORT`, `REPORT_DECISION`, `RUN`, `RUN_PLAN`; SIGINT and SIGTERM |
| tearictl | `runtime/tearictl.c` | none | `enroll`, `verify`, `update-model`, `report`, `report-decision` straight to trustd; the others to the supervisor |
| runtime manager | `runtime/runtime_manager.c` | one run | load, check, prepare, verify, launch, ask optd, approve, record, report |
| workload adapter | `runtime/workload_adapter.c` | run id, metrics path | prepare, run_checked |
| optimizer | `runtime/optd.c`, `runtime/optimizer_policy.c` | none | `PROPOSE` |
| loading | `runtime/model_manifest.c`, `runtime/profile.c`, `runtime/platform_adapter.c`, `runtime/runtime_paths.c` | none | parse a file or the environment into a record |
| telemetry | `runtime/observability.c` | the event file | event, log, panic |
| workloads | `runtime/mnist_model.c`, `runtime/demo_model.c` | none | inference, a metrics file |

**How they interact.** tearictl sends one line to the supervisor and waits for
one reply. For each step of the command the supervisor forks a child and waits
for it: a tearictl that calls trustd, or a runtime manager, which verifies the
manifest with trustd, forks the workload, asks optd for a proposal, and records
its decision with trustd. tearictl also reaches trustd directly, past the
supervisor. trustd serves one connection at a time, and either works on its
files or opens a session of the trusted application for each request. Everything
is separate processes, stream sockets, files and signals: no threads.

**What is hard.** A store is a sequence of file operations and the process can
be killed between any two of them; several callers queue, die or are refused; a
caller whose connection breaks cannot know whether its request took effect; the
daemons die of SIGPIPE when they reply to a caller that is gone; the trusted
application reads, checks and rewrites its table in separate accesses while
other sessions run; a signal finds the supervisor blocked, or just not blocked
yet; one step of a command fails and another must not be taken.

**What makes each part correct.**

- *trustd, either back end*: each request takes effect at once or not at all;
  the trusted version goes back only by ENROLL, and not without an event; an
  UPDATE replaces the very record it was checked against; OK means stored; other
  artifacts are untouched and keep their places, on which REPORT depends; what was
  written can be read; every request ends.
- *supervisor*: no child of a command outlives it unless a signal asked to stop;
  OK means that every step succeeded; it is READY between commands; every client
  gets an answer or an end of file; a signal ends it.
- *supervisor, the daemons*: both are there while it serves commands, and it stops
  them after its loop, and the first when it cannot start the second. When it cannot
  create its socket it returns and leaves both.
- *runtime manager, its workload and optd*: nothing is launched that was not
  trusted at some moment of the run; a run that ends with status 0 had a workload
  that ended well; a decision is made from this run's own measurements, and is
  the one that `README.md` gives for them; what is reported is the run's own
  decision or a later one; a run ends, with trustd and optd or without.

The hazards behind these, each at its line, are listed in `PROJECT.json`.

## 2. Modules

```
TrustRecords                 records, requests, answers, the rollback rule
  TrustRegistry              ABSTRACT: what trustd promises its callers
  RecordTable                a table of records: Lookup, Upsert
    TrustdFile               trustd + file back end + its callers
      TrustdFileProps        properties, refinement mapping, inductive invariant
        TrustdFileEvents     with a history of the event log; TLC: one configuration
        MCTrustdFile         TLC: four configurations
        TrustdFile_proofs        types, one line per artifact, the queue
          TrustdFileStore_proofs     versions under any fault; stores without one
            TrustdFileRegistry_proofs    implements TrustRegistry
    TearTA                   the trusted application and its sessions
      TearTAProps            properties, refinement mapping, inductive invariant
        MCTearTA             TLC: three configurations
        TearTA_proofs        the proofs
  RecordTable_proofs         lemmas on Lookup and Upsert, used by both
Supervisor                   accept loop, commands, children, signals
  SupervisorProps            properties, inductive invariant
    MCSupervisor             TLC: three configurations
    Supervisor_proofs        the proofs
Inference                    metrics, proposal and policy as operators
  InferenceProps             what they are meant to find
    Inference_proofs         the scan and the density, for every input
  RuntimeManager             managers, workloads, optd, tearictl; COMPOSED WITH
    |                        TrustRegistry, which stands for trustd
    RuntimeManagerProps      properties (with InferenceProps), inductive invariants
      MCRuntimeManager       TLC: one configuration
      RuntimeManager_proofs  the proofs (with Inference_proofs)
```

**TrustRecords.** A manifest is the record that trustd stores: artifact,
version, back end, hash. `UpdateAllowed` is `model_update_allowed` (a newer
version on the same back end). Strings are model values; versions are integers,
and one that is not positive is representable, because trustd's parser takes it.

**TrustRegistry** is the abstract specification. A caller's request is `Call`ed,
takes effect in one step (`Store`, `Verify`, `Report`, ...), and `Return`s; a
request may be denied for reasons the specification does not give, and its
answer may be lost after it took effect or before. `trusted` is a function from
artifacts to records: neither files nor tables.

**TrustdFile.** One action per file operation that can fail or be the last one
before a kill: `pc` is the operation trustd is at. `OpenTmp`, `WriteTmp` and
`Rename` are the three parts of `tear_trusted_state_store`; `LoadForUpdate`,
`LoadForVerify` and `LoadForReport` the reads, each with the decision the
handler takes on what it read. `Kill` can come anywhere; `LogPanics` is the abort
of `tear_event_manifest` on a manifest it does not accept, after the store and
before the reply; `ReplyBreaks` is SIGPIPE. `SilentFaults` allows the failures
that the code does not notice: a state file that exists and does not open is
taken for an empty one, and what `fclose` could not flush is missing from the
file that is then renamed. Decision log: only the last line is ever read.

**TrustdFileEvents** adds a history variable to `TrustdFile`: `announced` is, for
each artifact, the record of the last `model_enroll` or `model_update_ok` event.
Only `Announce` (a `LogManifest` after a store that succeeded) changes it, and no
guard reads it. `Kill` is left out, so an event that is missing is missing by the
doing of trustd itself.

**TearTA.** `pc` is per session. The reads and writes of the persistent objects
are separate steps (`FindForUpdate`, `ReadTable`, `WriteTable`, ...), so any
number of sessions interleave, as `TA_FLAGS` (no single-instance flag) allows.
The size of the table is counted in bytes: `RecLen` gives a record's length and
`DbMax` the buffer's. The three tests on it are separate definitions:
`Appendable` (`append_record`), `Writable` (`write_trusted_state_db`) and `Readable`
(`read_trusted_state_db`). `PowerLoss` ends all sessions.

**Supervisor.** A command is the sequence of its steps: `"tool"` (a tearictl),
`"run"` (a runtime manager), or `"bad"` (a line that does not parse). `Fork`,
`ChildExits` and `StepFails` follow `run_tearictl`, `run_workload_once` and
`run_plan_file`; what differs between them, that a failed run does not stop a
plan, is `Tolerated`. `sigaction` is called without `SA_RESTART`: `SignalInAccept`,
`SignalInRead` and `SignalInWait` interrupt the blocking call, `Signal` comes at
any other moment and only clears the flag. A child inherits the listening socket,
so clients of a dead supervisor wait until its children have ended (`Disconnect`).
`daemons` are the processes that it started: trustd (`StartTrustd`), then optd
(`StartOptd`), before the socket. When optd does not start, trustd is stopped; when
the socket cannot be created (`BootFails`), `main` returns and both are left running.
After the accept loop `StopDaemons` stops optd, then trustd. The supervisor has three
ends (`Ended`): `"gone"`, after its loop or when a daemon did not start, `"unbound"`,
without a socket, and `"dead"`, killed by SIGPIPE or by a signal before the handlers
are installed (`SignalEarly`).

**Inference.** The computations of a run, as operators: `Density` is computed
from the 28 x 28 images of `mnist_model.c`, `Confidence` is the one scan of
`mnist_get_confidence` that keeps the two best scores (a recursive
function of the number of scores seen), `Propose` is `tear_optimizer_propose` and `Outcome` the
policy of the manager. The network itself is a sequence of scores.

**RuntimeManager.** Any number of runs at once, each with its manager, its
workload and its metrics file. `Load`, `Verified`, `Launch`, `Reap`, `Ask`,
`Proposed` or `NoOptd`, `Recorded`, `Report`, `Reported` are the manager's steps
in the code's order, one for each time it waits for, or hands over to, another
process. The manager makes the requests of `TrustRegistry` (`Call`, `Return`);
trustd serves them there (`Trustd`), or goes down and loses them (`TrustdLoses`).
The workload truncates, fills and leaves the metrics file in steps of its own and
may end after any of them, well or not. optd reads the file when it serves the
question, not when it is asked, and dies of SIGPIPE when the manager is gone.
`Enroll` and `Update` are tearictl, which changes what is trusted under the
feet of a run. `Kill` can come at any step of a manager and leaves its workload,
its question and its request behind. `measured`, `proven` and `log` are history
variables: they are read by properties and by no guard.

## 3. What is checked

| run | bounds | distinct states | shows |
|---|---|---|---|
| `file_data` | 1 caller, 2 artifacts, versions 0..2 | 95 thousand | `TypeOK`, `OneLinePerArtifact`, `OthersUntouched`, `RollbackOnlyByEnroll`, `StoresKeepOrder` |
| `file_callers` | 2 callers, 1 artifact, versions 0..1 | 277 thousand | `CheckedRecordStands`, `OkMeansStored`, `EveryCallerInLine`, `EveryStepServes`, `ImplementsRegistry`, `EveryRequestEnds` |
| `file_faults` | 1 caller, 2 artifacts, 2 hashes, unnoticed faults | 748 thousand | `OneLinePerArtifact`, `FaultsNeverRollBack` |
| `ta_serial` | 1 session, 3 artifacts, a table that overflows | 30 thousand | `RollbackOnlyByEnroll`, `StoresKeepOrder`, `ImplementsRegistry` |
| `ta_concurrent` | 2 sessions | 168 thousand | `TypeOK`, `OneRecordPerArtifact`, `TableStaysReadable`, `RollbackNeedsOverlap` |
| `supervisor` | 2 clients, 3 process ids, plans of 2 lines | 405 thousand | `TypeOK`, `NothingLeftBehind`, `DaemonsKept`, `ReadyBetweenCommands`, `OkMeansEveryStep`, `EveryClientInLine`, `EveryStepServes`, `EveryClientEnds`, `StopsAfterNextClient` |
| `manager` | 2 runs, 1 artifact, versions 1..2, 3 results | 382 thousand | `TypeOK`, `RanAndMeasured`, `DecisionFitsRun`, `ReportedNotOlder`, `ScanFindsTheTwoBest`, `LaunchedWasTrusted`, `EveryRunEnds` |

and five runs in which the code does something else than the repository says:

| run | property | what happens |
|---|---|---|
| `file_rollback` | `NoSilentRollback` (`docs/invariants.md:4`) | ENROLL of a version that is not positive is stored over a higher one, and trustd aborts before it logs the event (`trustd.c:438`, `observability.c:75`) |
| `file_lostflush` | `OkMeansStored` | the close of the temporary file is not checked (`trusted_state.c:219`) |
| `ta_race` | `RollbackOnlyByEnroll` (`README.md:528`) | two sessions: an UPDATE checked against an older record overwrites a newer one |
| `supervisor_plan` | `PlanOkMeansEveryRun` (`supervisor.c:343`) | a failed run returns 1, the plan stops at a negative result only, and is answered OK |
| `supervisor_signal` | `SignalEnds` (`scripts/run-host-mock.sh:41`) | a signal between the test of the flag and `accept` is forgotten |

**Why the bounds are enough.** A store touches one artifact and leaves the
others: two artifacts are the one stored and one that must stay, three records
make the application's small table overflow. Three versions are one to come
from, one to go to, and one that is not positive (trustd aborts on it);
`file_lostflush` has positive ones only, since trustd answers OK to no other. Two
callers are the one served and one that waits, dies, or connects meanwhile; the
accept loop treats the callers behind alike. Two sessions give the race of a
check with a write; what must hold for more sessions is proved. Two lines of a
plan are one that fails and one that is, or is not, run after it. A supervisor
can leave at most one child behind per signal and command: three process
identifiers hold two of them and the child of a command that is running, and
`fork` failing (`NoChild`) covers the rest. Two runs of the manager are the one
that a property is about and the other one, which replaces its decision, kills
optd under it, or would share its file; trustd keeps one decision, so more runs
replace it in the same way, and what must hold for more of them is proved. The
three results are noise with a clear winner (the density must win over the
margin), a seven that leads by exactly the margin of 500, and one that leads by
499, with the best score at the second, the last and the first place; besides,
`ScanFindsTheTwoBest` goes through all lists of two to four scores from 0 to 3,
which have every order and every tie of four scores. Two versions are the one
offered and the one that replaces it during the run. There are no counters, so no state
constraint is needed. A daemon is waiting for a caller at the end of every
request, and the models never deadlock, except the supervisor, which ends
(`CHECK_DEADLOCK FALSE` in its configurations).

**Mutants.** Each module with actions also has definitions that a comment calls a
mutant: the same action with a plausible slip (a dropped check, a result not
looked at, a reset forgotten). Nothing uses them in the specification; put in
the place of the action they name, each makes one property fail, which shows
that the property depends on that piece of code.

**Fairness.** `TrustdFile`: trustd takes a step when it can (an ordinary
process doing file operations that return), and a caller that has connected
sends (`tear_trust_*` writes right after `connect`) or is killed. Nothing is
assumed of `Start`: trustd is not restarted by anybody; when it goes down its
callers read end of file, which ends their requests. `Supervisor`: the
supervisor takes a step when it can, a child ends some day, a client that
connected sends, and the kernel closes what a dead process held. No fairness on
`HangUp`, `Connect`, `Kill` or signals. `RuntimeManager`: a manager takes a step
when it can, a workload ends (`waitpid` in `tear_workload_run_checked` has no
timeout: one that does not end blocks the run for ever), optd, while it is up,
answers, and trustd serves a request that is there (`EveryRequestEnds` of the file
back end). None on `Load`, `Kill`, `OptdDies`, `TrustdLoses`, `Enroll` or
`Update`: `EveryRunEnds` has to hold with a trustd that loses requests and with an
optd that never comes back. A client that stays silent on an open
connection blocks either daemon for ever; this is not modelled, and
`EveryRequestEnds` and `EveryClientEnds` say nothing about it.

## 4. What is proved

The proofs are about the same modules that TLC runs, for every set of artifacts,
versions, back ends, hashes, decisions, callers, sessions and runs that the named
assumptions of the modules allow (`None` is not one of these; versions are
integers; a record has a positive length).

| theorem | states | under |
|---|---|---|
| `TrustdFile_proofs!TypeCorrect` | `Spec => []TypeOK` | any faults |
| `TrustdFile_proofs!OneLine` | `Spec => []OneLinePerArtifact` | any faults |
| `TrustdFile_proofs!CallerInLine` | `Spec => []EveryCallerInLine` | any faults |
| `TrustdFile_proofs!StepServes` | `Spec => EveryStepServes` | any faults |
| `TrustdFileStore_proofs!CheckedStands` | `Spec => []CheckedRecordStands` | any faults |
| `TrustdFileStore_proofs!NoFaultRollsBack` | `Spec => FaultsNeverRollBack` | any faults |
| `TrustdFileStore_proofs!OkStored` | `Spec => []OkMeansStored` | no unnoticed fault |
| `TrustdFileStore_proofs!OthersStay` | `Spec => OthersUntouched` | no unnoticed fault |
| `TrustdFileStore_proofs!RollbackNeedsEnroll` | `Spec => RollbackOnlyByEnroll` | no unnoticed fault |
| `TrustdFileStore_proofs!OrderKept` | `Spec => StoresKeepOrder` | no unnoticed fault |
| `TrustdFileRegistry_proofs!FileImplementsRegistry` | `Spec => ImplementsRegistry` | no unnoticed fault |
| `TearTA_proofs!TypeCorrect`, `!OneRecord`, `!StaysReadable` | `[]TypeOK`, `[]OneRecordPerArtifact`, `[]TableStaysReadable` | any number of sessions |
| `TearTA_proofs!RollbackOverlap` | `Spec => RollbackNeedsOverlap` | any number of sessions |
| `TearTA_proofs!RollbackNeedsEnroll` | `Spec => RollbackOnlyByEnroll` | one session |
| `TearTA_proofs!OrderKept` | `Spec => StoresKeepOrder` | one session |
| `TearTA_proofs!TAImplementsRegistry` | `Spec => ImplementsRegistry` | one session |
| `Supervisor_proofs!TypeCorrect`, `!NothingLeft`, `!ReadyBetween`, `!OkEveryStep`, `!DaemonsStopped` | `[]TypeOK`, `[]NothingLeftBehind`, `[]ReadyBetweenCommands`, `[]OkMeansEveryStep`, `[]DaemonsKept` | any clients, plans of any length |
| `Supervisor_proofs!ClientInLine` | `Spec => []EveryClientInLine` | any clients |
| `Supervisor_proofs!StepServes` | `Spec => EveryStepServes` | any clients, plans of any length |
| `Inference_proofs!ScanStep` | one step of the scan keeps `TwoBestOf` | any sequence of integers |
| `Inference_proofs!ScanFinds` | the scan ends with the two best scores (`TwoBest`) | any sequence of two integers or more |
| `Inference_proofs!DensitySeparates` | the noise, and no other image, has a density above 100 | the three samples |
| `RuntimeManager_proofs!TypeCorrect`, `!RanMeasured`, `!NotOlder` | `[]TypeOK`, `[]RanAndMeasured`, `[]ReportedNotOlder` | any number of runs |
| `RuntimeManager_proofs!LaunchTrusted` | `Spec => LaunchedWasTrusted` | any number of runs |
| `RuntimeManager_proofs!ScanTwoBest` | `Spec => []ScanFindsTheTwoBest` | networks with any number of classes |
| `RuntimeManager_proofs!DecisionFits` | `Spec => []DecisionFitsRun` | any number of runs |

"No unnoticed fault" is `SilentFaults = FALSE`; without it the run
`file_lostflush` refutes `OkMeansStored`. "One session" is `OneSession`;
without it the run `ta_race` refutes the corresponding properties. trustd opens
one session per request and serves one request at a time, so one trustd keeps to
it; a second trustd, or its self-tests run beside it, do not.

**The argument for the file back end.** None of the properties is inductive by
itself. `BaseInv` adds to the types what each value of `pc` knows: who is served
and that its request is one the handler takes (`ServingConsistent`,
`HandlerConsistent`), that a caller without a message has no request
(`CallersConsistent`), and that a temporary file about to be renamed exists and
has one line per artifact (`TmpConsistent`). It holds under all faults. `IInv`
adds the three facts that make a store atomic when faults are noticed: the state
file still holds the record that was checked (`CheckedRecordStands`), what will
be renamed over it is the state file with the incoming record in it
(`RenameInstallsUpsert`), and after the rename the record is there
(`OkMeansStored`). The proof has one lemma per group of actions and a step per
action. With `IInv`, only `Rename` changes the state file, and the lemmas of
`RecordTable_proofs` (`UpsertLookup`: looking up the stored artifact gives the
record, looking up another gives what it gave before) turn that into the action
properties and into the `Store` step of the refinement. When faults go
unnoticed, what is renamed may lack lines, and `FaultInv` says what is left: it
is older than the state file in at most the record of an ENROLL (`TmpNotOlder`),
because what a fault leaves of a line keeps its version (`TruncationsVersion`)
and an UPDATE was checked against the record that is still there. In the
refinement a request takes effect when its reply is settled: from then on
`stage` is `"served"` although the reply may never arrive; a crash maps to
`Lose` for the callers it cuts off, all of them in one step.

**The argument for the queues.** `EveryCallerInLine` (trustd) and
`EveryClientInLine` (supervisor) are inductive together with the invariants above:
a connection is opened at the end of the queue, moved from its head to the one
served, and closed by every path out of a handler. On them rests the measure
`Distance`: the steps left of the request in hand (`StepsLeft`), plus the most that
one request can take for each place in the queue. `EveryStepServes` says that each
step of the daemon makes the distance of every waiting caller smaller and that
nobody else's step changes it, so a caller of trustd is answered, or cut off, after
at most `8 * Place + 7` of trustd's steps, and a client of the supervisor, while its
loop goes on, after at most `(4 * MaxLines + 9) * Place + 4 * MaxLines + 8` steps of
the supervisor and of the children that it waits for. The bound on a command is `StepsBound`:
a plan has at most `MaxLines` lines, provisioning takes two steps for each, and each
step is a fork and a wait. The proofs have one lemma for what the handlers do to the
measure (`HandlingAdvances`, `WorkingAdvances`) and one for the step of `accept`
(`AcceptMovesUp`), and use the place of a caller only through its uniqueness in the
queue. This is what
`EveryRequestEnds` and `EveryClientEnds` rest on: what is missing from it to
liveness is that the daemon takes its next step at all.

**The argument for the application.** `BaseInv` (types, what each session holds,
one record per artifact) holds for any number of sessions, because a table that a
session writes was read when it had that property; so does `UpdateChecked`, because
the record that an UPDATE was checked against stays with its session. If nothing was
written between its reads and its write, that record is the one it replaces: this is
`RollbackOverlap`, which says exactly how much of the policy two sessions can lose.
`SerialInv` adds, for one session, that nothing is written between
(`NothingBetween`). So `WriteTable` replaces the one record it was sent
(`WritesOneRecord`), from which both `RollbackNeedsEnroll` and the refinement follow
as above. `OrderKept`, for either back end, is the lemma `UpsertKeepsPlaces`.

**The argument for the supervisor.** `IInv` of `SupervisorProps` adds to the three
properties whose command is being served and that it was sent
(`CommandsConsistent`), that `waitpid` has a child exactly when a step is left
(`WaitConsistent`), what `supervisor_state` is at each point (`StateConsistent`),
and that a command other than `RUN_PLAN` goes on only while nothing has failed
(`CleanSoFar`). The lemma `FailingStep` says once what every failure of a step
leaves, and a failed `fork`, a failed child and an interrupted `waitpid` all use
it.

`DaemonsKept` follows from the daemons that each value of `pc` can have
(`DaemonsConsistent`): none at `"gone"`, both in the loop, and both at `"unbound"`,
the one return of `main` that leaves them.

**The argument for the runtime manager.** `IInv` of `RuntimeManagerProps` has one
conjunct, `RunConsistent(r)`, per run, which speaks of nothing but the places of
`r` in the functions of the state, of `trusted` and of the log. The lemmas
`OthersKeep` and `OneMoves` say once that a step of one run leaves those of the
others alone, so that each action is shown for the run that takes it.
`RunConsistent` ties together what a property cannot see at one moment: a request
on its way to trustd carries what it carried when it was sent, also after its
manager was killed (`ManagerConsistent`); while a `VERIFY` is pending, a manifest
that is trusted now is one that was trusted since the question, so an OK proves
it (`VerifyConsistent`); from its launch on a run's metrics file is its own, and
holds what its workload measured (`FileConsistent`); what is told to a run comes
from its own entry of the log, or from behind it (`ReportConsistent`). `FitInv` adds the
decision: what optd proposed, what is on its way to trustd, and what is in the
log fits what this run measured.

**The argument for the computations.** `DecisionFits` needs two facts about what a
workload measures: that the margin is 500 or more exactly when one class leads all
others by that much (`MarginMeansWinner`, from `ScanFinds`), and that the noise is
the one dense input (`DensitySeparates`). Both are theorems of `Inference_proofs`,
so `DecisionFits` has no hypothesis beyond the assumptions on the constants.
`Confidence` is a recursive function, and what it computes is shown for sequences of
any length by induction. The induction theorems of the library take the property as
an operator, which the provers here cannot instantiate; `NatSetInduction` takes it as
a set, and is derived from a least counterexample (`LeastNat`, from `WFMin`). In the
same way `RunsExist` and `RunsAgree` show that the function which the recursive
definition chooses exists (`ScanDefined`). The induction step is `ScanStep`: a new
best score makes the old best the second. The density counts inked pixels: those of
the noise include the 112 multiples of 7, those of a seven go one to one into 44
slots, at most 44 of 784.

**Model-checked only.** Liveness (`EveryRequestEnds`, `EveryClientEnds`,
`StopsAfterNextClient`, `EveryRunEnds`): TLAPS does not prove fairness or `ENABLED`.
Every other property of a passing run is a theorem; in the two places where a
property needs it, under the condition of that run (no unnoticed fault, one session).

## 5. Not modelled

- The network of `mnist_model.c`: weights, convolution and the ONNX file. Its
  scores are inputs. Scores and margins are integers, so the rounding of float
  arithmetic, and its conversion to text in the metrics file, is not modelled.
- Text: event names, log lines, argument parsing, path construction, the syntax
  of manifests and profiles. What the loaders return is `Files`; that they refuse
  a file is `LoadFails`.
- Permissions of a profile (`allow_*`): they are parsed, and nobody reads them.
- Loss of power in the file back end: there is no `fsync`, so what is left is a
  question about the file system. Two trustd processes over one state file.
- `tear_trust_report` takes any reply for success, ERR included: the supervisor's
  model has the outcome of a step, and not the reply behind it.
- `tear_ca`, the scripts and the build: they drive or test what is modelled.

## 6. Plan

Done, in this order: `TrustRecords`, `TrustRegistry`, `RecordTable`,
`TrustdFile`, `TearTA`, their proofs, `Supervisor` and its proofs, `Inference`,
`RuntimeManager` and its proofs, the daemons of the supervisor.

1. The supervisor composed with runs of the manager: a plan, and the managers
   that a signal leaves behind.
2. Loss of power in the file back end, with a file system that may keep a rename
   and lose the content.

## 7. Running

```
tlc -workers 2 -config TrustdFile_data.cfg MCTrustdFile.tla     # and so on
tlapm TrustdFile_proofs.tla                                     # and so on
```
