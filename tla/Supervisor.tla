----------------------------- MODULE Supervisor -----------------------------
(***************************************************************************)
(* tear-supervisor, runtime/supervisor.c: the accept loop, the commands it *)
(* serves for tearictl, the children that it forks and waits for, and the  *)
(* signals that ask it to stop.                                            *)
(*                                                                         *)
(* One command is served at a time.  A command is a sequence of steps,     *)
(* each of them a child that is forked and waited for: a tearictl that     *)
(* talks to trustd, or a runtime manager.  The signal handler only clears  *)
(* a flag, and it is installed without SA_RESTART: a signal that finds the *)
(* supervisor blocked makes accept, read or waitpid return early, one that *)
(* comes just before changes nothing but the flag.                         *)
(*                                                                         *)
(* A child is what it is to the supervisor: it runs until it exits, with   *)
(* status 0 or not.  trustd and optd are children that nobody waits for    *)
(* until the end: the supervisor does not notice when they die before.     *)
(***************************************************************************)
EXTENDS Integers, Sequences

CONSTANTS
    Client,     \* the processes that send commands: tearictl
    Pid,        \* process identifiers of children
    MaxLines,   \* the longest plan
    None

ASSUME NoneAssumption == None \notin Pid /\ None \notin Client
ASSUME MaxLinesAssumption == MaxLines \in Nat

VARIABLES
    pc,         \* where the supervisor is, or how it has ended (see Ended)
    state,      \* supervisor_state
    going,      \* supervisor_running
    client,     \* the client being served
    todo,       \* the steps of its command that are left
    verdict,    \* the reply it will get
    clean,      \* history: has no step of the command failed?
    waited,     \* the child that waitpid waits for
    child,      \* what each child is doing
    daemons,    \* those of trustd and optd that are started and not stopped
    queue,      \* connections waiting for accept
    conn,       \* the state of each client's connection
    command     \* what each client has sent

server == <<pc, state, going, client, todo, verdict, clean>>
children == <<waited, child, daemons>>
clients == <<queue, conn, command>>
vars == <<server, children, clients>>

-----------------------------------------------------------------------------
(* The commands.  A line of a plan that is not a RUN, a command that does  *)
(* not parse and a plan that does not open are a step "bad".  A line that  *)
(* is provisioned is two calls of tearictl, enroll and report.             *)

Plan == UNION {[1 .. n -> {"run", "bad"}] : n \in 0 .. MaxLines}

Provisioning(plan) ==
    [i \in 1 .. 2 * Len(plan) |->
        IF plan[(i + 1) \div 2] = "bad" THEN "bad" ELSE "tool"]

Command ==
    [cmd : {"STATUS"}, steps : {<<>>}]
        \cup [cmd : {"UNKNOWN"}, steps : {<<"bad">>}]
        \cup [cmd : {"PROVISION"}, steps : {<<"bad">>, <<"tool", "tool">>}]
        \cup [cmd : {"PROVISION_PLAN"}, steps : {Provisioning(p) : p \in Plan}]
        \cup [cmd : {"UPDATE_MODEL"}, steps : {<<"bad">>, <<"tool">>}]
        \cup [cmd : {"REPORT", "REPORT_DECISION"}, steps : {<<"tool">>}]
        \cup [cmd : {"RUN"}, steps : {<<"bad">>, <<"run">>}]
        \cup [cmd : {"RUN_PLAN"}, steps : Plan]

\* The commands that are refused while a workload runs.
Guarded == {"PROVISION", "PROVISION_PLAN", "UPDATE_MODEL", "RUN", "RUN_PLAN"}

\* Before the loop: trustd is to be started, then optd, then the socket created.
Early == {"starting", "optd", "socket"}

\* main has returned, after the loop or when a daemon did not start; main has
\* returned because the socket was not created; the process was killed.
Ended == {"gone", "unbound", "dead"}

TypeOK ==
    /\ pc \in Early \cup Ended \cup
            {"check", "accept", "read", "step", "wait", "reply", "closing", "stopping"}
    /\ state \in {"INIT", "READY", "RUNNING", "SHUTTING_DOWN"}
    /\ going \in BOOLEAN /\ clean \in BOOLEAN
    /\ client \in Client \cup {None}
    /\ todo \in Seq({"tool", "run", "bad"})
    /\ verdict \in {"OK", "ERR", None}
    /\ waited \in Pid \cup {None}
    /\ child \in [Pid -> {"none", "tool", "run"}]
    /\ daemons \subseteq {"trustd", "optd"}
    /\ queue \in Seq(Client)
    /\ conn \in [Client -> {"idle", "connected", "sent", "hungup"}]
    /\ command \in [Client -> Command \cup {None}]

Init ==
    /\ pc = "starting"
    /\ state = "INIT"
    /\ going = TRUE
    /\ client = None
    /\ todo = <<>>
    /\ verdict = None
    /\ clean = TRUE
    /\ waited = None
    /\ child = [p \in Pid |-> "none"]
    /\ daemons = {}
    /\ queue = <<>>
    /\ conn = [c \in Client |-> "idle"]
    /\ command = [c \in Client |-> None]

-----------------------------------------------------------------------------
(* The clients: supervisor_command of tearictl.                            *)

Alive(p) == child[p] # "none"

\* A child holds the listening socket that it was forked with.
Held == \E p \in Pid : Alive(p)

\* A supervisor that ends in order unlinks the name of its socket, one that is
\* killed does not.
Listening ==
    \/ pc \notin Early \cup Ended \cup {"stopping"}
    \/ pc = "dead" /\ Held

Connect(c) ==
    /\ Listening
    /\ conn[c] = "idle"
    /\ conn' = [conn EXCEPT ![c] = "connected"]
    /\ queue' = Append(queue, c)
    /\ UNCHANGED <<server, children, command>>

Send(c, j) ==
    /\ conn[c] = "connected"
    /\ conn' = [conn EXCEPT ![c] = "sent"]
    /\ command' = [command EXCEPT ![c] = j]
    /\ UNCHANGED <<server, children, queue>>

HangUp(c) ==
    /\ conn[c] \in {"connected", "sent"}
    /\ conn' = [conn EXCEPT ![c] = "hungup"]
    /\ UNCHANGED <<server, children, queue, command>>

-----------------------------------------------------------------------------
(* The accept loop.                                                        *)

\* The supervisor has closed its socket or ended, and so has every child that
\* shared it: whoever waits for an answer reads end of file.  trustd and optd
\* were there before the socket.
Disconnect ==
    /\ pc \in Ended \cup {"stopping"}
    /\ ~Held
    /\ \E c \in Client : conn[c] # "idle"
    /\ queue' = <<>>
    /\ conn' = [c \in Client |-> "idle"]
    /\ command' = [c \in Client |-> None]
    /\ UNCHANGED <<server, children>>

StartTrustd ==
    /\ pc = "starting"
    /\ \/ pc' = "optd" /\ daemons' = {"trustd"}
       \/ pc' = "gone" /\ UNCHANGED daemons
    /\ UNCHANGED <<state, going, client, todo, verdict, clean, waited, child, clients>>

\* Mutant of StartOptd: trustd is not stopped when optd cannot be started.
StartOptdOrLeave ==
    /\ pc = "optd"
    /\ \/ pc' = "socket" /\ daemons' = daemons \cup {"optd"}
       \/ pc' = "gone" /\ UNCHANGED daemons
    /\ UNCHANGED <<state, going, client, todo, verdict, clean, waited, child, clients>>

StartOptd ==
    /\ pc = "optd"
    /\ \/ pc' = "socket" /\ daemons' = daemons \cup {"optd"}
       \/ pc' = "gone" /\ daemons' = {}
    /\ UNCHANGED <<state, going, client, todo, verdict, clean, waited, child, clients>>

Boot ==
    /\ pc = "socket"
    /\ pc' = "check"
    /\ state' = "READY"
    /\ UNCHANGED <<going, client, todo, verdict, clean, children, clients>>

\* The socket cannot be created: main returns 1 and stops neither trustd nor
\* optd, which run on.
BootFails ==
    /\ pc = "socket"
    /\ pc' = "unbound"
    /\ UNCHANGED <<state, going, client, todo, verdict, clean, children, clients>>

\* Mutant of CheckFlag: the flag is not read.
CheckNoFlag ==
    /\ pc = "check"
    /\ pc' = "accept"
    /\ UNCHANGED <<state, going, client, todo, verdict, clean, children, clients>>

CheckFlag ==
    /\ pc = "check"
    /\ pc' = IF going THEN "accept" ELSE "closing"
    /\ UNCHANGED <<state, going, client, todo, verdict, clean, children, clients>>

Accept ==
    /\ pc = "accept"
    /\ queue # <<>>
    /\ client' = Head(queue)
    /\ queue' = Tail(queue)
    /\ pc' = "read"
    /\ UNCHANGED <<state, going, todo, verdict, clean, children, conn, command>>

\* The connection is closed without a reply.
Abandon ==
    /\ conn' = [conn EXCEPT ![client] = "idle"]
    /\ client' = None
    /\ pc' = "check"
    /\ UNCHANGED <<state, todo, verdict, clean, children, queue, command>>

\* Mutant of ReadNothing: end of file is taken for an interruption.
ReadNothingRetries ==
    /\ pc = "read"
    /\ conn[client] = "hungup"
    /\ command[client] = None
    /\ UNCHANGED vars

ReadNothing ==
    /\ pc = "read"
    /\ conn[client] = "hungup"
    /\ command[client] = None
    /\ Abandon
    /\ UNCHANGED going

ReadCommand ==
    LET j == command[client] IN
    /\ pc = "read"
    /\ j # None
    /\ IF state = "RUNNING" /\ j.cmd \in Guarded
       THEN pc' = "reply" /\ verdict' = "ERR" /\ UNCHANGED todo
       ELSE pc' = "step" /\ todo' = j.steps /\ UNCHANGED verdict
    /\ clean' = TRUE
    /\ UNCHANGED <<state, going, client, children, clients>>

-----------------------------------------------------------------------------
(* The steps of a command.                                                 *)

Ready(step) == IF step = "run" THEN "READY" ELSE state

\* run_workload_once returns 1 when the run fails, and run_plan_file stops at
\* a negative result only: the plan goes on.
Tolerated == command[client].cmd = "RUN_PLAN" /\ Head(todo) = "run"

\* Mutant of StepFails: the run that failed is tried again.
StepFailsRepeats ==
    /\ clean' = FALSE
    /\ state' = Ready(Head(todo))
    /\ IF Tolerated
       THEN pc' = "step" /\ UNCHANGED <<todo, verdict>>
       ELSE pc' = "reply" /\ verdict' = "ERR" /\ UNCHANGED todo

StepFails ==
    /\ clean' = FALSE
    /\ state' = Ready(Head(todo))
    /\ IF Tolerated
       THEN pc' = "step" /\ todo' = Tail(todo) /\ UNCHANGED verdict
       ELSE pc' = "reply" /\ verdict' = "ERR" /\ UNCHANGED todo

\* Mutant of Fork: the child is not waited for.
ForkDetached(p) ==
    /\ pc = "step"
    /\ todo # <<>>
    /\ Head(todo) # "bad"
    /\ ~Alive(p)
    /\ child' = [child EXCEPT ![p] = Head(todo)]
    /\ todo' = Tail(todo)
    /\ UNCHANGED <<pc, state, going, client, verdict, clean, waited, daemons, clients>>

Fork(p) ==
    /\ pc = "step"
    /\ todo # <<>>
    /\ Head(todo) # "bad"
    /\ ~Alive(p)
    /\ child' = [child EXCEPT ![p] = Head(todo)]
    /\ waited' = p
    /\ pc' = "wait"
    /\ state' = IF Head(todo) = "run" THEN "RUNNING" ELSE state
    /\ UNCHANGED <<going, client, todo, verdict, clean, daemons, clients>>

\* fork fails, or the line is bad.
NoChild ==
    /\ pc = "step"
    /\ todo # <<>>
    /\ StepFails
    /\ UNCHANGED <<going, client, children, clients>>

\* Mutant of ChildExits: the exit status is not looked at.
ChildExitsUnchecked(p) ==
    /\ Alive(p)
    /\ child' = [child EXCEPT ![p] = "none"]
    /\ IF pc = "wait" /\ waited = p
       THEN /\ waited' = None
            /\ pc' = "step"
            /\ todo' = Tail(todo)
            /\ state' = Ready(Head(todo))
            /\ clean' \in {clean, FALSE}
            /\ UNCHANGED <<going, client, verdict>>
       ELSE UNCHANGED <<server, waited>>
    /\ UNCHANGED <<daemons, clients>>

\* A child exits: the one waited for, with status 0 or not, or one that
\* nobody waits for any more.
ChildExits(p) ==
    /\ Alive(p)
    /\ child' = [child EXCEPT ![p] = "none"]
    /\ IF pc = "wait" /\ waited = p
       THEN /\ waited' = None
            /\ \/ /\ pc' = "step"
                  /\ todo' = Tail(todo)
                  /\ state' = Ready(Head(todo))
                  /\ UNCHANGED <<verdict, clean>>
               \/ StepFails
            /\ UNCHANGED <<going, client>>
       ELSE UNCHANGED <<server, waited>>
    /\ UNCHANGED <<daemons, clients>>

Done ==
    /\ pc = "step"
    /\ todo = <<>>
    /\ pc' = "reply"
    /\ verdict' = "OK"
    /\ UNCHANGED <<state, going, client, todo, clean, children, clients>>

\* The connection being served is closed, or breaks.
Release ==
    /\ conn' = [conn EXCEPT ![client] = "idle"]
    /\ command' = [command EXCEPT ![client] = None]
    /\ client' = None
    /\ todo' = <<>>
    /\ verdict' = None
    /\ clean' = TRUE

Reply ==
    /\ pc = "reply"
    /\ conn[client] = "sent"
    /\ Release
    /\ pc' = "check"
    /\ UNCHANGED <<state, going, children, queue>>

\* Nobody handles SIGPIPE: replying to a client that is gone is the end, and
\* trustd and optd are left running.
ReplyBreaks ==
    /\ pc = "reply"
    /\ conn[client] = "hungup"
    /\ pc' = "dead"
    /\ Release
    /\ UNCHANGED <<state, going, children, queue>>

\* The loop has ended: the socket is closed and its name unlinked.
Close ==
    /\ pc = "closing"
    /\ pc' = "stopping"
    /\ state' = "SHUTTING_DOWN"
    /\ UNCHANGED <<going, client, todo, verdict, clean, children, clients>>

\* stop_child sends SIGTERM, which ends trustd and optd at once, and waits.  A
\* signal that interrupts its waitpid changes nothing: the result is not read.
StopDaemons ==
    /\ pc = "stopping"
    /\ IF "optd" \in daemons
       THEN daemons' = daemons \ {"optd"} /\ UNCHANGED pc
       ELSE daemons' = daemons \ {"trustd"} /\ pc' = "gone"
    /\ UNCHANGED <<state, going, client, todo, verdict, clean, waited, child, clients>>

-----------------------------------------------------------------------------
(* SIGINT and SIGTERM.                                                     *)

\* Before install_signal_handlers a signal ends the process.
SignalEarly ==
    /\ pc \in Early
    /\ pc' = "dead"
    /\ UNCHANGED <<state, going, client, todo, verdict, clean, children, clients>>

\* The handler runs, and nothing is interrupted.
Signal ==
    /\ pc \notin Early \cup Ended
    /\ going' = FALSE
    /\ UNCHANGED <<pc, state, client, todo, verdict, clean, children, clients>>

\* Mutant of SignalInAccept: the result of accept is not looked at.
SignalInAcceptUnchecked ==
    /\ pc = "accept"
    /\ going' = FALSE
    /\ client' = -1
    /\ pc' = "read"
    /\ UNCHANGED <<state, todo, verdict, clean, children, clients>>

SignalInAccept ==
    /\ pc = "accept"
    /\ going' = FALSE
    /\ pc' = "closing"
    /\ UNCHANGED <<state, client, todo, verdict, clean, children, clients>>

\* Mutant of SignalInRead: the connection is not closed.
SignalInReadLeaks ==
    /\ pc = "read"
    /\ conn[client] = "connected"
    /\ going' = FALSE
    /\ client' = None
    /\ pc' = "check"
    /\ UNCHANGED <<state, todo, verdict, clean, children, clients>>

SignalInRead ==
    /\ pc = "read"
    /\ conn[client] = "connected"
    /\ going' = FALSE
    /\ Abandon

\* Mutant of SignalInWait: the error path leaves supervisor_state as it is.
SignalInWaitStaysRunning ==
    /\ pc = "wait"
    /\ going' = FALSE
    /\ waited' = None
    /\ clean' = FALSE
    /\ pc' = "reply"
    /\ verdict' = "ERR"
    /\ UNCHANGED <<state, client, todo, child, daemons, clients>>

\* waitpid fails with EINTR: the child runs on, and nobody waits for it.
SignalInWait ==
    /\ pc = "wait"
    /\ going' = FALSE
    /\ waited' = None
    /\ StepFails
    /\ UNCHANGED <<client, child, daemons, clients>>

-----------------------------------------------------------------------------
ClientStep(c) == Connect(c) \/ (\E j \in Command : Send(c, j)) \/ HangUp(c)

\* The steps the supervisor takes of itself.
Serve ==
    \/ StartTrustd
    \/ StartOptd
    \/ Boot
    \/ BootFails
    \/ CheckFlag
    \/ Accept
    \/ ReadNothing
    \/ ReadCommand
    \/ \E p \in Pid : Fork(p)
    \/ NoChild
    \/ Done
    \/ Reply
    \/ ReplyBreaks
    \/ Close
    \/ StopDaemons

Interrupt == SignalEarly \/ Signal \/ SignalInAccept \/ SignalInRead \/ SignalInWait

Next ==
    \/ \E c \in Client : ClientStep(c)
    \/ Serve
    \/ Disconnect
    \/ \E p \in Pid : ChildExits(p)
    \/ Interrupt

Spec == Init /\ [][Next]_vars

\* The supervisor runs, every child ends, and a client that connected sends.
Fairness ==
    /\ WF_vars(Serve)
    /\ WF_vars(Disconnect)
    /\ \A p \in Pid : WF_vars(ChildExits(p))
    /\ \A c \in Client : WF_vars(\E j \in Command : Send(c, j))

FairSpec == Spec /\ Fairness
=============================================================================
