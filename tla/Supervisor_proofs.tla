-------------------------- MODULE Supervisor_proofs --------------------------
(***************************************************************************)
(* Proofs about the supervisor, for any number of clients and processes    *)
(* and plans of any length: the type invariant, and that nothing of a      *)
(* command is left behind, that the supervisor is READY between commands   *)
(* and that OK means what it says.                                         *)
(***************************************************************************)
EXTENDS SupervisorProps, TLAPS

-----------------------------------------------------------------------------
(* Commands.                                                               *)

Step == {"tool", "run", "bad"}

\* A plan is a sequence of lines, and each line that is provisioned is two
\* steps.
LEMMA PlanType == \A plan \in Plan : plan \in Seq({"run", "bad"})
BY MaxLinesAssumption DEF Plan

LEMMA ProvisioningType ==
    ASSUME NEW plan \in Plan
    PROVE  Provisioning(plan) \in Seq(Step)
<1>1. Len(plan) \in Nat
  BY PlanType
<1>2. Provisioning(plan) \in [1 .. 2 * Len(plan) -> Step]
  BY <1>1 DEF Provisioning, Step
<1>3. 2 * Len(plan) \in Nat
  BY <1>1
<1>4. QED
  BY <1>2, <1>3

\* The steps of every command are a sequence of steps.
LEMMA StepsType ==
    ASSUME NEW j \in Command
    PROVE  j.steps \in Seq(Step)
<1>1. <<>> \in Seq(Step) /\ <<"bad">> \in Seq(Step) /\ <<"tool">> \in Seq(Step)
        /\ <<"run">> \in Seq(Step) /\ <<"tool", "tool">> \in Seq(Step)
  BY DEF Step
<1>2. \A p \in Plan : p \in Seq(Step)
  BY PlanType DEF Step
<1>3. QED
  BY <1>1, <1>2, ProvisioningType DEF Command

-----------------------------------------------------------------------------
(* The inductive invariant.                                                *)

LEMMA InitInv == Init => IInv
BY DEF Init, Early, Ended, IInv, TypeOK, CommandsConsistent, WaitConsistent,
    StateConsistent, CleanSoFar, NothingLeftBehind, OkMeansEveryStep, Alive

LEMMA ClientInv ==
    ASSUME IInv, NEW c \in Client, ClientStep(c)
    PROVE  IInv'
<1> USE DEF IInv, TypeOK, Early, Ended, server, children, clients
<1>1. CASE Connect(c)
  <2>1. TypeOK'
    BY <1>1 DEF Connect
  <2>2. CommandsConsistent' /\ WaitConsistent' /\ StateConsistent' /\ CleanSoFar'
    BY <1>1 DEF Connect, CommandsConsistent, WaitConsistent, StateConsistent, CleanSoFar
  <2>3. NothingLeftBehind' /\ OkMeansEveryStep'
    BY <1>1 DEF Connect, NothingLeftBehind, OkMeansEveryStep, Alive
  <2>4. QED
    BY <2>1, <2>2, <2>3
<1>2. ASSUME NEW j \in Command, Send(c, j)
      PROVE  IInv'
  <2>1. TypeOK'
    BY <1>2 DEF Send
  <2>2. pc \in {"step", "wait", "reply"} => client # c
    BY <1>2 DEF Send, CommandsConsistent
  <2>3. CommandsConsistent'
    BY <1>2, <2>1, <2>2 DEF Send, CommandsConsistent
  <2>4. WaitConsistent' /\ StateConsistent'
    BY <1>2 DEF Send, WaitConsistent, StateConsistent
  <2>5. CleanSoFar' /\ OkMeansEveryStep'
    BY <1>2, <2>2 DEF Send, CleanSoFar, OkMeansEveryStep, CommandsConsistent
  <2>6. NothingLeftBehind'
    BY <1>2 DEF Send, NothingLeftBehind, Alive
  <2>7. QED
    BY <2>1, <2>3, <2>4, <2>5, <2>6
<1>3. CASE HangUp(c)
  <2>1. TypeOK'
    BY <1>3 DEF HangUp
  <2>2. CommandsConsistent' /\ WaitConsistent' /\ StateConsistent' /\ CleanSoFar'
    BY <1>3 DEF HangUp, CommandsConsistent, WaitConsistent, StateConsistent, CleanSoFar
  <2>3. NothingLeftBehind' /\ OkMeansEveryStep'
    BY <1>3 DEF HangUp, NothingLeftBehind, OkMeansEveryStep, Alive
  <2>4. QED
    BY <2>1, <2>2, <2>3
<1>4. QED
  BY <1>1, <1>2, <1>3 DEF ClientStep

LEMMA LoopInv ==
    ASSUME IInv, StartTrustd \/ StartOptd \/ Boot \/ BootFails \/ CheckFlag \/ Accept
                    \/ ReadNothing \/ Close \/ StopDaemons
    PROVE  IInv'
<1> USE NoneAssumption DEF IInv, TypeOK, Early, Ended, server, children, clients
<1>1. CASE Accept
  <2>1. Head(queue) \in Client /\ Tail(queue) \in Seq(Client)
    BY <1>1 DEF Accept
  <2>2. TypeOK'
    BY <1>1, <2>1 DEF Accept
  <2>3. CommandsConsistent' /\ WaitConsistent' /\ StateConsistent' /\ CleanSoFar'
    BY <1>1, <2>1 DEF Accept, CommandsConsistent, WaitConsistent, StateConsistent, CleanSoFar
  <2>4. NothingLeftBehind' /\ OkMeansEveryStep'
    BY <1>1 DEF Accept, NothingLeftBehind, OkMeansEveryStep, Alive
  <2>5. QED
    BY <2>2, <2>3, <2>4
<1>2. CASE ReadNothing
  <2>1. TypeOK'
    BY <1>2 DEF ReadNothing, Abandon
  <2>2. CommandsConsistent' /\ WaitConsistent' /\ StateConsistent' /\ CleanSoFar'
    BY <1>2 DEF ReadNothing, Abandon, CommandsConsistent, WaitConsistent,
        StateConsistent, CleanSoFar
  <2>3. NothingLeftBehind' /\ OkMeansEveryStep'
    BY <1>2 DEF ReadNothing, Abandon, NothingLeftBehind, OkMeansEveryStep, Alive
  <2>4. QED
    BY <2>1, <2>2, <2>3
<1>3. CASE StartTrustd \/ StartOptd \/ Boot \/ BootFails \/ CheckFlag \/ Close \/ StopDaemons
  <2>1. TypeOK'
    BY <1>3 DEF StartTrustd, StartOptd, Boot, BootFails, CheckFlag, Close, StopDaemons
  <2>2. CommandsConsistent' /\ WaitConsistent' /\ CleanSoFar'
    BY <1>3 DEF StartTrustd, StartOptd, Boot, BootFails, CheckFlag, Close, StopDaemons, CommandsConsistent,
        WaitConsistent, CleanSoFar
  <2>3. StateConsistent'
    BY <1>3 DEF StartTrustd, StartOptd, Boot, BootFails, CheckFlag, Close, StopDaemons, StateConsistent
  <2>4. NothingLeftBehind' /\ OkMeansEveryStep'
    BY <1>3 DEF StartTrustd, StartOptd, Boot, BootFails, CheckFlag, Close, StopDaemons, NothingLeftBehind,
        OkMeansEveryStep, Alive
  <2>5. QED
    BY <2>1, <2>2, <2>3, <2>4
<1>4. QED
  BY <1>1, <1>2, <1>3

\* A step that fails ends the command, or the run of a plan is passed over.
\* Either way supervisor_state is READY again.
LEMMA FailingStep ==
    ASSUME IInv, pc \in {"step", "wait"}, todo # <<>>, StepFails
    PROVE  /\ pc' \in {"step", "reply"}
           /\ state' = "READY"
           /\ clean' = FALSE
           /\ todo' \in Seq(Step)
           /\ verdict' \in {"OK", "ERR", None}
           /\ pc' = "step" => command[client].cmd = "RUN_PLAN"
           /\ pc' = "reply" => verdict' = "ERR"
<1>1. Tail(todo) \in Seq(Step)
  BY DEF IInv, TypeOK, Step
<1>2. state' = "READY"
  BY DEF IInv, StepFails, Ready, StateConsistent
<1>3. QED
  BY <1>1, <1>2 DEF IInv, TypeOK, StepFails, Tolerated, Step

LEMMA ServingInv ==
    ASSUME IInv, ReadCommand \/ (\E p \in Pid : Fork(p)) \/ NoChild \/ Done
    PROVE  IInv'
<1> USE NoneAssumption DEF IInv, TypeOK, Early, Ended, server, children, clients
<1>1. CASE ReadCommand
  <2>1. command[client] \in Command
    BY <1>1 DEF ReadCommand, CommandsConsistent
  <2>2. command[client].steps \in Seq({"tool", "run", "bad"})
    BY <2>1, StepsType DEF Step
  <2>3. state = "READY"
    BY <1>1 DEF ReadCommand, StateConsistent
  <2>4. pc' = "step" /\ todo' = command[client].steps /\ UNCHANGED verdict
    BY <1>1, <2>3 DEF ReadCommand
  <2>5. TypeOK'
    BY <1>1, <2>2, <2>4 DEF ReadCommand
  <2>6. CommandsConsistent' /\ WaitConsistent' /\ StateConsistent' /\ CleanSoFar'
    BY <1>1, <2>3, <2>4 DEF ReadCommand, CommandsConsistent, WaitConsistent,
        StateConsistent, CleanSoFar
  <2>7. NothingLeftBehind' /\ OkMeansEveryStep'
    BY <1>1, <2>4 DEF ReadCommand, NothingLeftBehind, OkMeansEveryStep, Alive
  <2>8. QED
    BY <2>5, <2>6, <2>7
<1>2. ASSUME NEW p \in Pid, Fork(p)
      PROVE  IInv'
  <2>1. Head(todo) \in {"tool", "run"}
    BY <1>2 DEF Fork
  <2>2. TypeOK'
    BY <1>2, <2>1 DEF Fork
  <2>3. CommandsConsistent' /\ WaitConsistent' /\ StateConsistent' /\ CleanSoFar'
    BY <1>2, <2>1 DEF Fork, CommandsConsistent, WaitConsistent, StateConsistent, CleanSoFar
  <2>4. NothingLeftBehind' /\ OkMeansEveryStep'
    BY <1>2 DEF Fork, NothingLeftBehind, OkMeansEveryStep, Alive
  <2>5. QED
    BY <2>2, <2>3, <2>4
<1>3. CASE NoChild
  <2>1. StepFails /\ pc = "step" /\ todo # <<>>
    BY <1>3 DEF NoChild
  <2>2. /\ pc' \in {"step", "reply"} /\ state' = "READY" /\ clean' = FALSE
        /\ todo' \in Seq({"tool", "run", "bad"}) /\ verdict' \in {"OK", "ERR", None}
        /\ pc' = "step" => command[client].cmd = "RUN_PLAN"
        /\ pc' = "reply" => verdict' = "ERR"
    BY <2>1, FailingStep DEF Step
  <2>3. TypeOK'
    BY <1>3, <2>2 DEF NoChild
  <2>4. CommandsConsistent' /\ WaitConsistent' /\ StateConsistent' /\ CleanSoFar'
    BY <1>3, <2>2 DEF NoChild, CommandsConsistent, WaitConsistent, StateConsistent, CleanSoFar
  <2>5. NothingLeftBehind' /\ OkMeansEveryStep'
    BY <1>3, <2>2 DEF NoChild, NothingLeftBehind, OkMeansEveryStep, Alive
  <2>6. QED
    BY <2>3, <2>4, <2>5
<1>4. CASE Done
  <2>1. TypeOK'
    BY <1>4 DEF Done
  <2>2. CommandsConsistent' /\ WaitConsistent' /\ StateConsistent' /\ CleanSoFar'
    BY <1>4 DEF Done, CommandsConsistent, WaitConsistent, StateConsistent, CleanSoFar
  <2>3. NothingLeftBehind' /\ OkMeansEveryStep'
    BY <1>4 DEF Done, NothingLeftBehind, OkMeansEveryStep, CleanSoFar, Alive
  <2>4. QED
    BY <2>1, <2>2, <2>3
<1>5. QED
  BY <1>1, <1>2, <1>3, <1>4

LEMMA ChildInv ==
    ASSUME IInv, NEW p \in Pid, ChildExits(p)
    PROVE  IInv'
<1> USE NoneAssumption DEF IInv, TypeOK, Early, Ended, server, children, clients
<1>1. CASE ~(pc = "wait" /\ waited = p)
  <2>1. TypeOK'
    BY <1>1 DEF ChildExits
  <2>2. CommandsConsistent' /\ WaitConsistent' /\ StateConsistent' /\ CleanSoFar'
    BY <1>1 DEF ChildExits, CommandsConsistent, WaitConsistent, StateConsistent, CleanSoFar
  <2>3. NothingLeftBehind' /\ OkMeansEveryStep'
    BY <1>1 DEF ChildExits, NothingLeftBehind, OkMeansEveryStep, Alive
  <2>4. QED
    BY <2>1, <2>2, <2>3
<1>2. CASE pc = "wait" /\ waited = p
  <2> DEFINE Succeeds ==
        /\ pc' = "step" /\ todo' = Tail(todo)
        /\ state' = Ready(Head(todo)) /\ UNCHANGED <<verdict, clean>>
  <2>1. /\ waited' = None /\ child' = [child EXCEPT ![p] = "none"]
        /\ UNCHANGED <<going, client, daemons, queue, conn, command>>
        /\ Succeeds \/ StepFails
    BY <1>2 DEF ChildExits
  <2>2. todo # <<>>
    BY <1>2 DEF WaitConsistent
  <2>3. /\ pc' \in {"step", "reply"} /\ state' = "READY" /\ clean' \in {clean, FALSE}
        /\ todo' \in Seq({"tool", "run", "bad"}) /\ verdict' \in {"OK", "ERR", None}
        /\ pc' = "step" /\ clean' # clean => command[client].cmd = "RUN_PLAN"
        /\ pc' = "reply" => verdict' = "ERR"
    <3>1. CASE Succeeds
      BY <1>2, <2>2, <3>1 DEF Ready, StateConsistent
    <3>2. CASE StepFails
      BY <1>2, <2>2, <3>2, FailingStep DEF Step
    <3>3. QED
      BY <2>1, <3>1, <3>2
  <2> HIDE DEF Succeeds
  <2>4. TypeOK'
    BY <2>1, <2>3
  <2>5. CommandsConsistent' /\ WaitConsistent' /\ StateConsistent'
    BY <1>2, <2>1, <2>3 DEF CommandsConsistent, WaitConsistent, StateConsistent
  <2>6. CleanSoFar'
    BY <1>2, <2>1, <2>3 DEF CleanSoFar
  <2>7. NothingLeftBehind' /\ OkMeansEveryStep'
    BY <1>2, <2>1, <2>3 DEF NothingLeftBehind, OkMeansEveryStep, Alive
  <2>8. QED
    BY <2>4, <2>5, <2>6, <2>7
<1>3. QED
  BY <1>1, <1>2

LEMMA EndInv ==
    ASSUME IInv, Reply \/ ReplyBreaks \/ Disconnect
    PROVE  IInv'
<1> USE NoneAssumption DEF IInv, TypeOK, Early, Ended, server, children, clients
<1>1. CASE Reply \/ ReplyBreaks
  <2>1. TypeOK'
    <3>1. /\ pc' \in {"check", "dead"}
          /\ Release
          /\ UNCHANGED <<state, going, children, queue>>
      BY <1>1 DEF Reply, ReplyBreaks
    <3>2. conn' \in [Client -> {"idle", "connected", "sent", "hungup"}]
      BY <3>1 DEF Release
    <3>3. command' \in [Client -> Command \cup {None}]
      BY <3>1 DEF Release
    <3>4. QED
      BY <3>1, <3>2, <3>3 DEF Release
  <2>2. CommandsConsistent' /\ WaitConsistent' /\ StateConsistent' /\ CleanSoFar'
    BY <1>1 DEF Reply, ReplyBreaks, Release, CommandsConsistent, WaitConsistent,
        StateConsistent, CleanSoFar
  <2>3. NothingLeftBehind' /\ OkMeansEveryStep'
    BY <1>1 DEF Reply, ReplyBreaks, Release, NothingLeftBehind, OkMeansEveryStep, Alive
  <2>4. QED
    BY <2>1, <2>2, <2>3
<1>2. CASE Disconnect
  <2>1. TypeOK'
    BY <1>2 DEF Disconnect
  <2>2. CommandsConsistent' /\ WaitConsistent' /\ StateConsistent' /\ CleanSoFar'
    BY <1>2 DEF Disconnect, CommandsConsistent, WaitConsistent, StateConsistent, CleanSoFar
  <2>3. NothingLeftBehind' /\ OkMeansEveryStep'
    BY <1>2 DEF Disconnect, NothingLeftBehind, OkMeansEveryStep, Alive
  <2>4. QED
    BY <2>1, <2>2, <2>3
<1>3. QED
  BY <1>1, <1>2

\* A signal keeps the invariant: it may leave a child behind, and the flag
\* then says that the supervisor was asked to stop.
LEMMA InterruptInv ==
    ASSUME IInv, Interrupt
    PROVE  IInv'
<1> USE NoneAssumption DEF IInv, TypeOK, Early, Ended, server, children, clients
<1>1. CASE SignalEarly \/ Signal \/ SignalInAccept
  <2>1. TypeOK'
    BY <1>1 DEF SignalEarly, Signal, SignalInAccept
  <2>2. CommandsConsistent' /\ WaitConsistent' /\ StateConsistent' /\ CleanSoFar'
    BY <1>1 DEF SignalEarly, Signal, SignalInAccept, CommandsConsistent,
        WaitConsistent, StateConsistent, CleanSoFar
  <2>3. NothingLeftBehind' /\ OkMeansEveryStep'
    BY <1>1 DEF SignalEarly, Signal, SignalInAccept, NothingLeftBehind,
        OkMeansEveryStep, Alive
  <2>4. QED
    BY <2>1, <2>2, <2>3
<1>2. CASE SignalInRead
  <2>1. command[client] = None
    BY <1>2 DEF SignalInRead, CommandsConsistent
  <2>2. TypeOK'
    BY <1>2 DEF SignalInRead, Abandon
  <2>3. CommandsConsistent' /\ WaitConsistent' /\ StateConsistent' /\ CleanSoFar'
    BY <1>2, <2>1 DEF SignalInRead, Abandon, CommandsConsistent, WaitConsistent,
        StateConsistent, CleanSoFar
  <2>4. NothingLeftBehind' /\ OkMeansEveryStep'
    BY <1>2 DEF SignalInRead, Abandon, NothingLeftBehind, OkMeansEveryStep
  <2>5. QED
    BY <2>2, <2>3, <2>4
<1>3. CASE SignalInWait
  <2>1. StepFails /\ pc = "wait" /\ todo # <<>>
    BY <1>3 DEF SignalInWait, WaitConsistent
  <2>2. /\ pc' \in {"step", "reply"} /\ state' = "READY" /\ clean' = FALSE
        /\ todo' \in Seq({"tool", "run", "bad"}) /\ verdict' \in {"OK", "ERR", None}
        /\ pc' = "step" => command[client].cmd = "RUN_PLAN"
        /\ pc' = "reply" => verdict' = "ERR"
    BY <2>1, FailingStep DEF Step
  <2>3. TypeOK'
    BY <1>3, <2>2 DEF SignalInWait
  <2>4. CommandsConsistent' /\ WaitConsistent' /\ StateConsistent' /\ CleanSoFar'
    BY <1>3, <2>2 DEF SignalInWait, CommandsConsistent, WaitConsistent,
        StateConsistent, CleanSoFar
  <2>5. NothingLeftBehind' /\ OkMeansEveryStep'
    BY <1>3, <2>2 DEF SignalInWait, NothingLeftBehind, OkMeansEveryStep
  <2>6. QED
    BY <2>3, <2>4, <2>5
<1>4. QED
  BY <1>1, <1>2, <1>3 DEF Interrupt

LEMMA NextInv ==
    ASSUME IInv, [Next]_vars
    PROVE  IInv'
<1>1. CASE UNCHANGED vars
  BY <1>1 DEF vars, server, children, clients, IInv, TypeOK, CommandsConsistent,
    WaitConsistent, StateConsistent, CleanSoFar, NothingLeftBehind,
    OkMeansEveryStep, Alive
<1>2. CASE \E c \in Client : ClientStep(c)
  BY <1>2, ClientInv
<1>3. CASE Serve
  BY <1>3, LoopInv, ServingInv, EndInv DEF Serve
<1>4. CASE Disconnect \/ Interrupt
  BY <1>4, EndInv, InterruptInv
<1>5. CASE \E p \in Pid : ChildExits(p)
  BY <1>5, ChildInv
<1>6. QED
  BY <1>1, <1>2, <1>3, <1>4, <1>5 DEF Next

LEMMA Invariant == Spec => []IInv
<1>1. Init => IInv
  BY InitInv
<1>2. IInv /\ [Next]_vars => IInv'
  BY NextInv
<1>3. QED
  BY <1>1, <1>2, PTL DEF Spec

-----------------------------------------------------------------------------
(* trustd and optd.                                                        *)

LEMMA DaemonsInv ==
    ASSUME IInv, DaemonsConsistent, [Next]_vars
    PROVE  DaemonsConsistent'
<1> USE DEF Early, Ended, DaemonsConsistent, DaemonsKept, server, children, clients
<1>1. CASE StartTrustd \/ StartOptd \/ Boot \/ BootFails
  BY <1>1 DEF StartTrustd, StartOptd, Boot, BootFails
<1>2. CASE CheckFlag \/ Accept \/ ReadNothing \/ ReadCommand
  BY <1>2 DEF CheckFlag, Accept, ReadNothing, Abandon, ReadCommand
<1>3. ASSUME NEW p \in Pid, Fork(p) \/ ChildExits(p)
      PROVE  DaemonsConsistent'
  BY <1>3 DEF Fork, ChildExits, StepFails
<1>4. CASE NoChild \/ Done \/ Reply \/ ReplyBreaks
  BY <1>4 DEF NoChild, StepFails, Done, Reply, ReplyBreaks, Release
<1>5. CASE Close
  BY <1>5 DEF Close
<1>6. CASE StopDaemons
  BY <1>6 DEF StopDaemons, IInv, TypeOK
<1>7. CASE Interrupt
  BY <1>7 DEF Interrupt, SignalEarly, Signal, SignalInAccept, SignalInRead, Abandon,
    SignalInWait, StepFails
<1>8. CASE Disconnect \/ UNCHANGED vars
  BY <1>8 DEF Disconnect, vars
<1>9. ASSUME NEW c \in Client, ClientStep(c)
      PROVE  DaemonsConsistent'
  BY <1>9 DEF ClientStep, Connect, Send, HangUp
<1>10. QED
  BY <1>1, <1>2, <1>3, <1>4, <1>5, <1>6, <1>7, <1>8, <1>9 DEF Next, Serve

-----------------------------------------------------------------------------
\* Every reachable state of the supervisor is well-typed.
THEOREM TypeCorrect == Spec => []TypeOK
<1>1. IInv => TypeOK
  BY DEF IInv
<1>2. QED
  BY <1>1, Invariant, PTL

\* Until a signal asks it to stop, the supervisor has at most the one child
\* that it waits for, whatever commands it is given and whatever fails.
THEOREM NothingLeft == Spec => []NothingLeftBehind
<1>1. IInv => NothingLeftBehind
  BY DEF IInv
<1>2. QED
  BY <1>1, Invariant, PTL

\* supervisor_state is READY whenever a command is waited for: the test for
\* RUNNING in the handlers never refuses anybody.
THEOREM ReadyBetween == Spec => []ReadyBetweenCommands
<1>1. IInv => ReadyBetweenCommands
  BY DEF IInv, StateConsistent, ReadyBetweenCommands
<1>2. QED
  BY <1>1, Invariant, PTL

\* OK to a command other than RUN_PLAN means that every step succeeded, for
\* plans of any length.
THEOREM OkEveryStep == Spec => []OkMeansEveryStep
<1>1. IInv => OkMeansEveryStep
  BY DEF IInv
<1>2. QED
  BY <1>1, Invariant, PTL

\* A supervisor that returns after its loop, or because a daemon did not start,
\* has stopped what it started, and until then it stops neither; one that returns
\* because its socket was not created leaves both trustd and optd running.
THEOREM DaemonsStopped == Spec => []DaemonsKept
<1>1. Init => DaemonsConsistent
  BY DEF Init, DaemonsConsistent, DaemonsKept, Early, Ended
<1>2. IInv /\ DaemonsConsistent /\ [Next]_vars => DaemonsConsistent'
  BY DaemonsInv
<1>3. DaemonsConsistent => DaemonsKept
  BY DEF DaemonsConsistent
<1>4. QED
  BY <1>1, <1>2, <1>3, Invariant, PTL DEF Spec

-----------------------------------------------------------------------------
(* The clients: each has its place, and moves on.                          *)

\* The steps that leave every connection and the queue alone.
Working ==
    \/ StartTrustd \/ StartOptd \/ Boot \/ BootFails \/ CheckFlag \/ ReadCommand
    \/ \E p \in Pid : Fork(p) \/ ChildExits(p)
    \/ NoChild \/ Done \/ Close \/ StopDaemons
    \/ SignalEarly \/ Signal \/ SignalInAccept \/ SignalInWait

LEMMA WorkingKeepsLine ==
    ASSUME Working
    PROVE  UNCHANGED <<client, queue, conn>>
BY DEF Working, server, children, clients, StartTrustd, StartOptd, Boot, BootFails, CheckFlag,
    ReadCommand, Fork, ChildExits, NoChild, StepFails, Done, Close, StopDaemons,
    SignalEarly, Signal, SignalInAccept, SignalInWait

\* The steps that close the connection that is served.
Closing == ReadNothing \/ SignalInRead \/ Reply \/ ReplyBreaks

LEMMA ClosingLeaves ==
    ASSUME IInv, Closing
    PROVE  /\ client \in Client /\ client' = None /\ UNCHANGED queue
           /\ conn' = [conn EXCEPT ![client] = "idle"]
           /\ pc \in {"read", "reply"} /\ pc' \in {"check", "dead"}
BY DEF Closing, ReadNothing, SignalInRead, Abandon, Reply, ReplyBreaks, Release, IInv,
    CommandsConsistent

\* Accept takes the first of the queue; the others move up.
LEMMA AcceptMovesUp ==
    ASSUME IInv, EveryClientInLine, Accept
    PROVE  /\ client = None /\ pc = "accept" /\ pc' = "read" /\ UNCHANGED conn
           /\ 1 \in DOMAIN queue /\ client' = queue[1] /\ client' \in Client
           /\ DOMAIN queue' = 1 .. Len(queue) - 1
           /\ \A i \in DOMAIN queue' : queue'[i] = queue[i + 1] /\ i + 1 \in DOMAIN queue
           /\ \A i \in DOMAIN queue : i # 1 => i - 1 \in DOMAIN queue'
<1>1. queue \in Seq(Client) /\ queue # <<>> /\ queue' = Tail(queue) /\ client' = Head(queue)
  BY DEF Accept, IInv, TypeOK
<1>2. client = None /\ pc = "accept" /\ pc' = "read" /\ UNCHANGED conn
  BY DEF Accept, EveryClientInLine
<1>3. Len(queue) \in Nat \ {0}
  BY <1>1
<1>4. QED
  BY <1>1, <1>2, <1>3

LEMMA NextLine ==
    ASSUME IInv, EveryClientInLine, [Next]_vars
    PROVE  EveryClientInLine'
<1>1. /\ queue \in Seq(Client) /\ DOMAIN queue = 1 .. Len(queue) /\ Len(queue) \in Nat
      /\ \A i \in DOMAIN queue : queue[i] \in Client
      /\ client \in Client \cup {None} /\ None \notin Client
      /\ conn \in [Client -> {"idle", "connected", "sent", "hungup"}]
  BY NoneAssumption DEF IInv, TypeOK
<1>2. /\ \A c \in Client : conn[c] # "idle" <=> c = client \/ \E i \in DOMAIN queue : queue[i] = c
      /\ \A i \in DOMAIN queue : queue[i] # client
      /\ \A i, j \in DOMAIN queue : queue[i] = queue[j] => i = j
      /\ client # None => pc \in {"read", "step", "wait", "reply"}
      /\ pc \in Early => queue = <<>>
  BY DEF EveryClientInLine
<1>3. ASSUME NEW d \in Client, Connect(d)
      PROVE  EveryClientInLine'
  <2>1. /\ conn[d] = "idle" /\ conn' = [conn EXCEPT ![d] = "connected"]
        /\ queue' = Append(queue, d) /\ UNCHANGED <<client, pc>> /\ pc \notin Early
    BY <1>3 DEF Connect, Listening, server, Early, Ended
  <2>2. d # client /\ \A i \in DOMAIN queue : queue[i] # d
    BY <1>2, <2>1
  <2>3. /\ DOMAIN queue' = 1 .. Len(queue) + 1 /\ queue'[Len(queue) + 1] = d
        /\ \A i \in DOMAIN queue : i \in DOMAIN queue' /\ queue'[i] = queue[i]
        /\ \A i \in DOMAIN queue' : i \in DOMAIN queue \/ i = Len(queue) + 1
    BY <1>1, <2>1
  <2>4. \A c \in Client : conn'[c] # "idle" <=> conn[c] # "idle" \/ c = d
    BY <1>1, <2>1
  <2>5. \A c \in Client : (\E i \in DOMAIN queue' : queue'[i] = c)
                            <=> (\E i \in DOMAIN queue : queue[i] = c) \/ c = d
    BY <1>1, <2>3
  <2>6. \A c \in Client : conn'[c] # "idle" <=> c = client' \/ \E i \in DOMAIN queue' : queue'[i] = c
    BY <1>2, <2>1, <2>4, <2>5
  <2>7. QED
    BY <1>2, <2>1, <2>2, <2>3, <2>6 DEF EveryClientInLine
<1>4. ASSUME NEW d \in Client, (\E j \in Command : Send(d, j)) \/ HangUp(d)
      PROVE  EveryClientInLine'
  <2>1. /\ UNCHANGED <<client, queue, pc>>
        /\ \A c \in Client : conn'[c] # "idle" <=> conn[c] # "idle"
    BY <1>1, <1>4 DEF Send, HangUp, server
  <2>2. QED
    BY <1>2, <2>1 DEF EveryClientInLine
<1>5. CASE Accept
  <2>1. \A i, j \in DOMAIN queue : i # j => queue[i] # queue[j]
    BY <1>2
  <2>2. \A c \in Client : (c = client' \/ \E i \in DOMAIN queue' : queue'[i] = c)
                            <=> \E i \in DOMAIN queue : queue[i] = c
    <3>1. ASSUME NEW i \in DOMAIN queue, i # 1
          PROVE  i - 1 \in DOMAIN queue' /\ queue'[i - 1] = queue[i]
      BY <1>1, <1>5, <3>1, AcceptMovesUp
    <3>2. QED
      BY <1>5, <3>1, AcceptMovesUp
  <2>3. \A i \in DOMAIN queue' : queue'[i] # client'
    BY <1>1, <1>5, <2>1, AcceptMovesUp
  <2>4. \A i, j \in DOMAIN queue' : queue'[i] = queue'[j] => i = j
    BY <1>1, <1>5, <2>1, AcceptMovesUp
  <2>5. client = None /\ UNCHANGED conn /\ pc' = "read"
    BY <1>5, AcceptMovesUp
  <2>6. QED
    BY <1>1, <1>2, <2>2, <2>3, <2>4, <2>5 DEF EveryClientInLine, Early, Ended
<1>6. CASE Closing
  <2>1. /\ client \in Client /\ client' = None /\ UNCHANGED queue /\ pc' \notin Early
        /\ conn' = [conn EXCEPT ![client] = "idle"]
    BY <1>6, ClosingLeaves DEF Early, Ended
  <2>2. \A c \in Client : conn'[c] # "idle" <=> conn[c] # "idle" /\ c # client
    BY <1>1, <2>1
  <2>3. QED
    BY <1>1, <1>2, <2>1, <2>2 DEF EveryClientInLine
<1>7. CASE Disconnect
  BY <1>1, <1>2, <1>7 DEF Disconnect, server, Early, Ended, EveryClientInLine
<1>8. CASE Working
  <2>1. client # None => pc' \in {"read", "step", "wait", "reply"}
    BY <1>2, <1>8 DEF Working, Early, Ended, StartTrustd, StartOptd, Boot, BootFails, CheckFlag,
      ReadCommand, Fork, ChildExits, NoChild, StepFails, Done, Close, StopDaemons,
      SignalEarly, Signal, SignalInAccept, SignalInWait, server
  <2>2. pc' \in Early => pc \in Early
    BY <1>8 DEF Working, Early, Ended, StartTrustd, StartOptd, Boot, BootFails, CheckFlag,
      ReadCommand, Fork, ChildExits, NoChild, StepFails, Done, Close, StopDaemons,
      SignalEarly, Signal, SignalInAccept, SignalInWait, server
  <2>3. QED
    BY <1>2, <1>8, <2>1, <2>2, WorkingKeepsLine DEF EveryClientInLine
<1>9. CASE UNCHANGED vars
  BY <1>2, <1>9 DEF vars, server, clients, EveryClientInLine
<1>10. QED
  BY <1>3, <1>4, <1>5, <1>6, <1>7, <1>8, <1>9 DEF Next, ClientStep, Serve, Interrupt,
    Working, Closing

LEMMA LineInvariant == Spec => [](IInv /\ EveryClientInLine)
<1>1. Init => EveryClientInLine
  BY NoneAssumption DEF Init, EveryClientInLine
<1>2. IInv /\ EveryClientInLine /\ [Next]_vars => EveryClientInLine'
  BY NextLine
<1>3. QED
  BY <1>1, <1>2, Invariant, PTL DEF Spec

\* Whichever step of a command fails, and whenever clients end and signals come,
\* every open connection is in one place, for any number of clients.
THEOREM ClientInLine == Spec => []EveryClientInLine
BY LineInvariant, PTL

-----------------------------------------------------------------------------
(* What stands before a client.                                            *)

LEMMA StepsBound ==
    ASSUME NEW j \in Command
    PROVE  Len(j.steps) \in Nat /\ Len(j.steps) <= 2 * MaxLines + 2
<1>1. \A p \in Plan : Len(p) \in Nat /\ Len(p) <= MaxLines
  BY MaxLinesAssumption DEF Plan
<1>2. \A p \in Plan : Len(Provisioning(p)) = 2 * Len(p)
  <2>1. ASSUME NEW p \in Plan
        PROVE  Len(Provisioning(p)) = 2 * Len(p)
    <3>1. Provisioning(p) \in Seq(Step) /\ DOMAIN Provisioning(p) = 1 .. 2 * Len(p)
      BY ProvisioningType DEF Provisioning
    <3>2. 2 * Len(p) \in Nat
      BY <1>1
    <3>3. QED
      BY <3>1, <3>2
  <2>2. QED
    BY <2>1
<1>3. \/ j.steps \in {<<>>, <<"bad">>, <<"tool">>, <<"run">>, <<"tool", "tool">>}
      \/ \E p \in Plan : j.steps = p \/ j.steps = Provisioning(p)
  BY DEF Command
<1>4. CASE j.steps \in {<<>>, <<"bad">>, <<"tool">>, <<"run">>, <<"tool", "tool">>}
  <2>1. PICK n \in 0 .. 2 : Len(j.steps) = n
    BY <1>4
  <2>2. n \in Nat /\ n <= 2
    OBVIOUS
  <2>3. MaxLines \in Nat
    BY MaxLinesAssumption
  <2>4. QED
    BY <2>1, <2>2, <2>3
<1>5. CASE \E p \in Plan : j.steps = p \/ j.steps = Provisioning(p)
  <2>1. PICK p \in Plan : j.steps = p \/ j.steps = Provisioning(p)
    BY <1>5
  <2>2. Len(j.steps) = Len(p) \/ Len(j.steps) = 2 * Len(p)
    BY <1>2, <2>1
  <2>3. Len(p) \in Nat /\ Len(p) <= MaxLines /\ MaxLines \in Nat
    BY <1>1, MaxLinesAssumption
  <2>4. QED
    BY <2>2, <2>3
<1>6. QED
  BY <1>3, <1>4, <1>5

\* A step that fails shortens what is left, or ends it.
LEMMA FailingAdvances ==
    ASSUME IInv, pc \in {"step", "wait"}, todo # <<>>, StepFails
    PROVE  StepsLeft' < StepsLeft
<1>1. todo \in Seq(Step) /\ Len(todo) \in Nat \ {0}
  BY DEF IInv, TypeOK, Step
<1>2. \/ pc' = "step" /\ todo' = Tail(todo)
      \/ pc' = "reply"
  BY DEF StepFails
<1>3. Len(Tail(todo)) = Len(todo) - 1
  BY <1>1
<1>4. QED
  BY <1>1, <1>2, <1>3 DEF StepsLeft

\* Each step of a command goes forward, unless it leaves the loop.
LEMMA WorkingAdvances ==
    ASSUME IInv, Working, pc \notin Early,
           pc' \notin Ended \cup {"closing", "stopping"}
    PROVE  UNCHANGED <<pc, client, todo>> \/ StepsLeft' < StepsLeft
<1>1. todo \in Seq(Step) /\ Len(todo) \in Nat /\ MaxLines \in Nat
  BY MaxLinesAssumption DEF IInv, TypeOK, Step
<1>2. CASE StartTrustd \/ StartOptd \/ Boot \/ BootFails \/ SignalEarly
  BY <1>2 DEF StartTrustd, StartOptd, Boot, BootFails, SignalEarly, Early, Ended
<1>3. CASE CheckFlag
  BY <1>3 DEF CheckFlag, StepsLeft
<1>4. CASE ReadCommand
  <2>1. command[client] \in Command
    BY <1>4 DEF ReadCommand, IInv, TypeOK, CommandsConsistent
  <2>2. \/ pc' = "reply"
        \/ pc' = "step" /\ todo' = command[client].steps
    BY <1>4 DEF ReadCommand
  <2>3. StepsLeft = 4 * MaxLines + 8
    BY <1>4 DEF ReadCommand, StepsLeft
  <2>4. StepsLeft' = 2 \/ StepsLeft' = 3 + 2 * Len(command[client].steps)
    BY <2>2 DEF StepsLeft
  <2>5. QED
    BY <1>1, <2>1, <2>3, <2>4, StepsBound
<1>5. ASSUME NEW p \in Pid, Fork(p)
      PROVE  StepsLeft' < StepsLeft
  BY <1>1, <1>5 DEF Fork, StepsLeft
<1>6. ASSUME NEW p \in Pid, ChildExits(p)
      PROVE  UNCHANGED <<pc, client, todo>> \/ StepsLeft' < StepsLeft
  <2>1. CASE ~(pc = "wait" /\ waited = p)
    BY <1>6, <2>1 DEF ChildExits, server
  <2>2. CASE pc = "wait" /\ waited = p
    <3>1. todo # <<>>
      BY <2>2 DEF IInv, WaitConsistent
    <3>2. CASE pc' = "step" /\ todo' = Tail(todo)
      <4>1. Len(todo') = Len(todo) - 1
        BY <1>1, <3>1, <3>2
      <4>2. StepsLeft = 2 + 2 * Len(todo) /\ StepsLeft' = 3 + 2 * Len(todo')
        BY <2>2, <3>2 DEF StepsLeft
      <4>3. QED
        BY <1>1, <4>1, <4>2
    <3>3. CASE StepFails
      BY <2>2, <3>1, <3>3, FailingAdvances
    <3>4. QED
      BY <1>6, <2>2, <3>2, <3>3 DEF ChildExits
  <2>3. QED
    BY <2>1, <2>2
<1>7. CASE NoChild
  BY <1>7, FailingAdvances DEF NoChild
<1>8. CASE Done
  <2>1. pc = "step" /\ pc' = "reply"
    BY <1>8 DEF Done
  <2>2. QED
    BY <1>1, <2>1 DEF StepsLeft
<1>9. CASE Close \/ SignalInAccept
  BY <1>9 DEF Close, SignalInAccept, Ended
<1>10. CASE StopDaemons
  BY <1>10 DEF StopDaemons, Ended
<1>11. CASE Signal
  BY <1>11 DEF Signal
<1>12. CASE SignalInWait
  BY <1>12, FailingAdvances DEF SignalInWait, IInv, WaitConsistent
<1>13. QED
  BY <1>2, <1>3, <1>4, <1>5, <1>6, <1>7, <1>8, <1>9, <1>10, <1>11, <1>12 DEF Working

LEMMA StepsLeftType ==
    ASSUME TypeOK
    PROVE  StepsLeft \in Int
<1>1. Len(todo) \in Nat /\ MaxLines \in Nat
  BY MaxLinesAssumption DEF TypeOK
<1>2. QED
  BY <1>1 DEF StepsLeft

LEMMA PlaceOf ==
    ASSUME EveryClientInLine, NEW i \in DOMAIN queue
    PROVE  Place(queue[i]) = i
BY DEF Place, EveryClientInLine

\* A client that stays in the queue keeps its place when others join, and moves
\* up by one when the supervisor accepts.
LEMMA DistanceServes ==
    ASSUME IInv, EveryClientInLine, [Next]_vars, NEW c \in Client,
           conn[c] = "sent", conn'[c] = "sent",
           pc' \notin Ended \cup {"closing", "stopping"}
    PROVE  IF UNCHANGED <<pc, client, todo>> THEN Distance(c)' = Distance(c)
                                             ELSE Distance(c)' < Distance(c)
<1> DEFINE W == 4 * MaxLines + 9
<1>1. /\ queue \in Seq(Client) /\ Len(queue) \in Nat /\ DOMAIN queue = 1 .. Len(queue)
      /\ c # None /\ W \in Int /\ MaxLines \in Nat
      /\ conn \in [Client -> {"idle", "connected", "sent", "hungup"}]
  BY NoneAssumption, MaxLinesAssumption DEF IInv, TypeOK
<1>2. EveryClientInLine' /\ StepsLeft \in Int /\ StepsLeft' \in Int
  <2>1. EveryClientInLine' /\ IInv'
    BY NextLine, NextInv
  <2>2. StepsLeft \in Int
    BY StepsLeftType DEF IInv
  <2>3. Len(todo') \in Nat /\ MaxLines \in Nat
    BY <2>1, MaxLinesAssumption DEF IInv, TypeOK
  <2>4. StepsLeft' \in Int
    BY <2>3 DEF StepsLeft
  <2>5. QED
    BY <2>1, <2>2, <2>4
<1>3. c # client => \E i \in DOMAIN queue : queue[i] = c /\ Place(c) = i
  BY PlaceOf DEF EveryClientInLine
<1>4. pc \notin Early
  BY <1>1, <1>3 DEF EveryClientInLine, Early, Ended
<1>5. ASSUME NEW i \in DOMAIN queue', queue'[i] = c
      PROVE  Place(c)' = i
  <2>1. \A j \in DOMAIN queue' : queue'[j] = c => j = i
    BY <1>2, <1>5 DEF EveryClientInLine
  <2>2. QED
    BY <1>5, <2>1 DEF Place
<1>6. c # client => Place(c) \in Int
  BY <1>1, <1>3
<1>7. ASSUME UNCHANGED <<pc, client, todo>>, c # client => Place(c)' = Place(c)
      PROVE  Distance(c)' = Distance(c)
  BY <1>7 DEF Distance, StepsLeft
<1>8. ASSUME client' = client, Place(c)' = Place(c), StepsLeft' < StepsLeft
      PROVE  ~UNCHANGED <<pc, client, todo>> /\ Distance(c)' < Distance(c)
  <2>1. ~UNCHANGED <<pc, client, todo>>
    BY <1>2, <1>8 DEF StepsLeft
  <2> DEFINE from   == StepsLeft
             to     == StepsLeft'
             before == IF c = client THEN 0 ELSE W * Place(c)
  <2>2. from \in Int /\ to \in Int /\ to < from
    BY <1>2, <1>8
  <2>3. before \in Int
    BY <1>1, <1>6
  <2>4. Distance(c) = from + before /\ Distance(c)' = to + before
    BY <1>8 DEF Distance
  <2> HIDE DEF from, to, before
  <2>5. QED
    BY <2>1, <2>2, <2>3, <2>4
<1>9. CASE Working
  <2>1. client' = client /\ Place(c)' = Place(c)
    BY <1>9, WorkingKeepsLine DEF Place
  <2>2. QED
    BY <1>4, <1>7, <1>8, <1>9, <2>1, WorkingAdvances
<1>10. CASE Accept
  <2>1. /\ c # client /\ pc = "accept" /\ pc' = "read"
        /\ StepsLeft = 0 /\ StepsLeft' = W - 1
    BY <1>1, <1>10, AcceptMovesUp DEF StepsLeft
  <2>2. PICK i \in DOMAIN queue : queue[i] = c /\ Place(c) = i
    BY <1>3, <2>1
  <2>3. CASE i = 1
    <3>1. client' = c
      BY <1>10, <2>2, <2>3, AcceptMovesUp
    <3>2. Distance(c)' = W - 1 /\ Distance(c) = W
      BY <1>1, <2>1, <2>2, <2>3, <3>1 DEF Distance
    <3>3. QED
      BY <1>1, <2>1, <3>2
  <2>4. CASE i # 1
    <3>1. i - 1 \in DOMAIN queue' /\ queue'[i - 1] = c
      BY <1>1, <1>10, <2>2, <2>4, AcceptMovesUp
    <3>2. Place(c)' = i - 1
      BY <1>5, <3>1
    <3>3. client' # c
      BY <1>2, <3>1 DEF EveryClientInLine
    <3>4. Distance(c)' = (W - 1) + W * (i - 1) /\ Distance(c) = W * i
      BY <1>1, <2>1, <2>2, <3>2, <3>3 DEF Distance
    <3>5. W * (i - 1) = W * i - W /\ W * i \in Int
      BY <1>1
    <3> DEFINE before == W * i
    <3> HIDE DEF before
    <3>6. Distance(c)' = before - 1 /\ Distance(c) = before /\ before \in Int
      BY <1>1, <3>4, <3>5 DEF before
    <3>7. QED
      BY <2>1, <3>6
  <2>5. QED
    BY <2>3, <2>4
<1>11. CASE Closing
  <2>1. /\ client \in Client /\ client' = None /\ UNCHANGED queue /\ pc' = "check"
        /\ conn' = [conn EXCEPT ![client] = "idle"] /\ pc \in {"read", "reply"}
    BY <1>11, ClosingLeaves DEF Ended
  <2>2. c # client /\ c # client' /\ Place(c)' = Place(c)
    BY <1>1, <2>1 DEF Place
  <2>3. StepsLeft' = 1 /\ StepsLeft >= 2
    BY <1>1, <2>1 DEF StepsLeft
  <2> DEFINE before == W * Place(c)
  <2>4. before \in Int
    BY <1>1, <1>6, <2>2
  <2>5. Distance(c) = StepsLeft + before /\ Distance(c)' = StepsLeft' + before
    BY <2>2 DEF Distance
  <2> HIDE DEF before
  <2>6. QED
    BY <1>2, <2>1, <2>3, <2>4, <2>5
<1>12. CASE Disconnect
  BY <1>12 DEF Disconnect
<1>13. CASE \E d \in Client : Connect(d)
  <2>1. UNCHANGED <<pc, client, todo>>
    BY <1>13 DEF Connect, server
  <2>2. ASSUME c # client
        PROVE  Place(c)' = Place(c)
    <3>1. PICK i \in DOMAIN queue : queue[i] = c /\ Place(c) = i
      BY <1>3, <2>2
    <3>2. i \in DOMAIN queue' /\ queue'[i] = c
      BY <1>1, <1>13, <3>1 DEF Connect
    <3>3. QED
      BY <1>5, <3>1, <3>2
  <2>3. QED
    BY <1>7, <2>1, <2>2
<1>14. CASE (\E d \in Client : (\E j \in Command : Send(d, j)) \/ HangUp(d)) \/ UNCHANGED vars
  <2>1. UNCHANGED <<pc, client, todo, queue>>
    BY <1>14 DEF Send, HangUp, vars, server, clients
  <2>2. QED
    BY <1>7, <2>1 DEF Place
<1>15. QED
  BY <1>9, <1>10, <1>11, <1>12, <1>13, <1>14 DEF Next, ClientStep, Serve, Interrupt,
    Working, Closing

\* A client whose command was sent comes closer to its reply with every step
\* of the supervisor's loop, and nothing else changes that, for any number of
\* clients and plans of any length: a failed run is not repeated, and nobody is
\* passed over.
THEOREM StepServes == Spec => EveryStepServes
<1> DEFINE Serves == \A c \in Client :
        conn[c] = "sent" /\ conn'[c] = "sent"
                /\ pc' \notin Ended \cup {"closing", "stopping"} =>
            IF UNCHANGED <<pc, client, todo>> THEN Distance(c)' = Distance(c)
                                              ELSE Distance(c)' < Distance(c)
<1>1. IInv /\ EveryClientInLine /\ [Next]_vars => [Serves]_vars
  BY DistanceServes
<1>2. QED
  BY <1>1, LineInvariant, PTL DEF Spec, EveryStepServes
=============================================================================
