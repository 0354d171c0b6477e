---------------------------- MODULE TrustRegistry ----------------------------
(***************************************************************************)
(* What trustd promises its callers, whichever back end it runs with: one  *)
(* trusted manifest per artifact and the last recorded decision, each      *)
(* request taking effect in one step between its call and its return.  A   *)
(* caller that gets no answer cannot tell whether its request took effect. *)
(*                                                                         *)
(* The file back end (TrustdFile) and the OP-TEE trusted application       *)
(* (TearTA) are shown to implement this module.                            *)
(***************************************************************************)
EXTENDS TrustRecords

CONSTANT Client

VARIABLES
    trusted,        \* the trusted manifest of each artifact, or None
    lastDecision,   \* the last decision recorded, or None
    stage,          \* "idle", "pending" or "served", per caller
    request,        \* the request of a caller that is not idle
    answer          \* the last answer of a caller, None while it waits

vars == <<trusted, lastDecision, stage, request, answer>>

TypeOK ==
    /\ trusted \in [Artifact -> Manifest \cup {None}]
    /\ lastDecision \in Decision \cup {None}
    /\ stage \in [Client -> {"idle", "pending", "served"}]
    /\ request \in [Client -> Request \cup {None}]
    /\ answer \in [Client -> Answer \cup {None}]

Init ==
    /\ trusted = [a \in Artifact |-> None]
    /\ lastDecision = None
    /\ stage = [c \in Client |-> "idle"]
    /\ request = [c \in Client |-> None]
    /\ answer = [c \in Client |-> None]

Call(c, r) ==
    /\ stage[c] = "idle"
    /\ stage' = [stage EXCEPT ![c] = "pending"]
    /\ request' = [request EXCEPT ![c] = r]
    /\ answer' = [answer EXCEPT ![c] = None]
    /\ UNCHANGED <<trusted, lastDecision>>

\* The request of c takes effect and its answer is settled.
Served(c, a) ==
    /\ stage' = [stage EXCEPT ![c] = "served"]
    /\ answer' = [answer EXCEPT ![c] = a]
    /\ UNCHANGED request

Store(c) ==
    LET m == request[c].arg IN
    /\ request[c].cmd \in StoreCommand
    /\ m # None
    /\ request[c].cmd = "UPDATE" =>
        /\ trusted[m.artifact] # None
        /\ UpdateAllowed(trusted[m.artifact], m)
    /\ trusted' = [trusted EXCEPT ![m.artifact] = m]
    /\ UNCHANGED lastDecision
    /\ Served(c, Reply("OK"))

Verify(c) ==
    LET m == request[c].arg IN
    /\ request[c].cmd = "VERIFY"
    /\ m # None
    /\ trusted[m.artifact] = m
    /\ UNCHANGED <<trusted, lastDecision>>
    /\ Served(c, Reply("OK"))

\* REPORT names no artifact: it returns the record of one of them.
Report(c) ==
    /\ request[c].cmd = "REPORT"
    /\ \E a \in Artifact :
        /\ trusted[a] # None
        /\ Served(c, StateReply(trusted[a]))
    /\ UNCHANGED <<trusted, lastDecision>>

RecordDecision(c) ==
    /\ request[c].cmd = "RECORD_DECISION"
    /\ request[c].arg # None
    /\ lastDecision' = request[c].arg
    /\ UNCHANGED trusted
    /\ Served(c, Reply("OK"))

ReportDecision(c) ==
    /\ request[c].cmd = "REPORT_DECISION"
    /\ lastDecision # None
    /\ UNCHANGED <<trusted, lastDecision>>
    /\ Served(c, DecisionReply(lastDecision))

\* A refused or failed request has no effect.
Deny(c) ==
    /\ UNCHANGED <<trusted, lastDecision>>
    /\ Served(c, Reply("ERR"))

Return(c) ==
    /\ stage[c] = "served"
    /\ stage' = [stage EXCEPT ![c] = "idle"]
    /\ request' = [request EXCEPT ![c] = None]
    /\ UNCHANGED <<trusted, lastDecision, answer>>

\* The callers in S lose their answers, whether or not they were served.
Lose(S) ==
    /\ \A c \in S : stage[c] # "idle"
    /\ stage' = [c \in Client |-> IF c \in S THEN "idle" ELSE stage[c]]
    /\ request' = [c \in Client |-> IF c \in S THEN None ELSE request[c]]
    /\ answer' = [c \in Client |-> IF c \in S THEN Reply("LOST") ELSE answer[c]]
    /\ UNCHANGED <<trusted, lastDecision>>

Serve(c) ==
    /\ stage[c] = "pending"
    /\ \/ Store(c)
       \/ Verify(c)
       \/ Report(c)
       \/ RecordDecision(c)
       \/ ReportDecision(c)
       \/ Deny(c)

Next ==
    \/ \E c \in Client : (\E r \in Request : Call(c, r)) \/ Serve(c) \/ Return(c)
    \/ \E S \in SUBSET Client : Lose(S)

Spec == Init /\ [][Next]_vars
=============================================================================
