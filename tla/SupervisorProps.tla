--------------------------- MODULE SupervisorProps ---------------------------
(***************************************************************************)
(* What the supervisor must guarantee to the clients of its socket and     *)
(* about the children that it starts.                                      *)
(***************************************************************************)
EXTENDS Supervisor

\* Until a signal asks the supervisor to stop, the only child alive is the
\* one it waits for: no two managers run at once, and a reply is sent only
\* when nothing of the command is still under way.
NothingLeftBehind ==
    going => \A p \in Pid : Alive(p) => pc = "wait" /\ waited = p

\* Between commands supervisor_state is READY, on every path out of a run:
\* no client is ever turned away with "busy".
ReadyBetweenCommands == pc \in {"check", "accept", "read"} => state = "READY"

\* A supervisor that returns because trustd or optd did not start, or after its
\* loop, has stopped what it started; while it serves commands it has stopped
\* neither.  The exception is a socket that cannot be created: main returns then
\* too (supervisor.c:808-812), and leaves both running.  What a supervisor that
\* is killed leaves behind is not spoken of.
DaemonsKept ==
    /\ pc = "gone" => daemons = {}
    /\ pc = "unbound" => daemons = {"trustd", "optd"}
    /\ pc \notin Early \cup Ended \cup {"stopping"} => daemons = {"trustd", "optd"}

\* OK to a command other than RUN_PLAN means that each of its steps was
\* taken and each child exited with status 0.
OkMeansEveryStep ==
    pc = "reply" /\ verdict = "OK" /\ command[client].cmd # "RUN_PLAN" =>
        clean /\ todo = <<>>

\* run_plan_file announces run_plan_failed when a line fails
\* (supervisor.c:343-344): OK to RUN_PLAN means that every run succeeded.
PlanOkMeansEveryRun ==
    pc = "reply" /\ verdict = "OK" /\ command[client].cmd = "RUN_PLAN" => clean

\* Every open connection is either the one being served or waits in the queue,
\* once, and nothing else is served or waits; nobody waits before there is a
\* socket.  No failure of a step, no signal and no end of a client leaves a
\* connection that nobody will close.
EveryClientInLine ==
    /\ \A c \in Client : conn[c] # "idle" <=> c = client \/ \E i \in DOMAIN queue : queue[i] = c
    /\ \A i \in DOMAIN queue : queue[i] # client
    /\ \A i, j \in DOMAIN queue : queue[i] = queue[j] => i = j
    /\ client # None => pc \in {"read", "step", "wait", "reply"}
    /\ pc \in Early => queue = <<>>

\* The steps left of the command in hand, by where the supervisor is: a step of
\* a command is a fork and a wait.
StepsLeft ==
    CASE pc = "check" -> 1
      [] pc = "read" -> 4 * MaxLines + 8
      [] pc = "step" -> 3 + 2 * Len(todo)
      [] pc = "wait" -> 2 + 2 * Len(todo)
      [] pc = "reply" -> 2
      [] OTHER -> 0

Place(c) == CHOOSE i \in DOMAIN queue : queue[i] = c

Distance(c) == StepsLeft + (IF c = client THEN 0 ELSE (4 * MaxLines + 9) * Place(c))

\* As long as its loop goes on, whatever the supervisor does, and each child that
\* it waits for, brings every client that waits closer to its reply, and what
\* clients, other children and signals do pushes none back: no plan goes in
\* circles, whatever fails in it, and no connection overtakes another.
EveryStepServes ==
    [][\A c \in Client :
        conn[c] = "sent" /\ conn'[c] = "sent"
                /\ pc' \notin Ended \cup {"closing", "stopping"} =>
            IF UNCHANGED <<pc, client, todo>> THEN Distance(c)' = Distance(c)
                                              ELSE Distance(c)' < Distance(c)]_vars

\* Every client that sent a command gets a reply or loses its connection.
EveryClientEnds == \A c \in Client : conn[c] = "sent" ~> conn[c] # "sent"

\* A signal that was not seen at once is seen after the next connection.
StopsAfterNextClient == ~going /\ queue # <<>> ~> pc \in Ended

\* The host-mock script stops the supervisor with "kill -INT" and waits for
\* it (scripts/run-host-mock.sh:41-42): a signal ends the supervisor.
SignalEnds == ~going ~> pc \in Ended

-----------------------------------------------------------------------------
(***************************************************************************)
(* The inductive invariant behind the three safety properties: whose       *)
(* command is being served, which child is waited for, and what            *)
(* supervisor_state and the history say meanwhile.                         *)
(***************************************************************************)
CommandsConsistent ==
    /\ \A c \in Client : command[c] # None => conn[c] \in {"sent", "hungup"}
    /\ pc \in {"read", "step", "wait", "reply"} => client \in Client
    /\ pc \in {"step", "wait", "reply"} => command[client] # None

WaitConsistent ==
    /\ waited # None <=> pc = "wait"
    /\ pc = "wait" => todo # <<>>

StateConsistent ==
    /\ pc \in {"check", "accept", "read", "step", "reply", "closing"} =>
        state = "READY"
    /\ pc = "wait" => state = IF Head(todo) = "run" THEN "RUNNING" ELSE "READY"

\* A command other than RUN_PLAN goes on only while nothing has failed.
CleanSoFar ==
    pc \in {"step", "wait"} /\ command[client].cmd # "RUN_PLAN" => clean

IInv ==
    /\ TypeOK
    /\ CommandsConsistent
    /\ WaitConsistent
    /\ StateConsistent
    /\ CleanSoFar
    /\ NothingLeftBehind
    /\ OkMeansEveryStep

\* Beside it, for trustd and optd: optd is never there without trustd.
DaemonsConsistent ==
    /\ DaemonsKept
    /\ pc = "starting" => daemons = {}
    /\ pc = "optd" => daemons = {"trustd"}
    /\ pc = "socket" => daemons = {"trustd", "optd"}
=============================================================================
