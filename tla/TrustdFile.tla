----------------------------- MODULE TrustdFile -----------------------------
(***************************************************************************)
(* trustd with its file back end: the accept loop and the handlers of      *)
(* runtime/trustd.c, the file operations of runtime/trusted_state.c, and   *)
(* the callers' side of the connection in runtime/trust_client.c.          *)
(*                                                                         *)
(* trustd serves one connection at a time.  A store is not one step: the   *)
(* state file is read, a temporary file is created, written and closed,    *)
(* and renamed over the state file, and each of these can fail.  The       *)
(* process can be killed between any two steps, and it aborts itself when  *)
(* it logs a manifest whose version is not positive.  A caller can be      *)
(* killed while it waits; trustd then dies of SIGPIPE when it replies.     *)
(*                                                                         *)
(* Nothing reads the temporary file but the rename, and only its last line *)
(* of the decision log is ever read back, so that is what is kept of them. *)
(***************************************************************************)
EXTENDS RecordTable

CONSTANTS
    Client,         \* the processes that call the tear_trust_* functions
    TornHash,       \* what is left of a hash in a line cut short
    TornDecision,   \* a decision line cut short, or run together with one
    SilentFaults    \* can file operations fail without the code noticing?

ASSUME ClientAssumption == None \notin Client
ASSUME TornAssumption == TornHash \in Hash /\ TornDecision \in Decision
ASSUME FaultsAssumption == SilentFaults \in BOOLEAN

VARIABLES
    disk,           \* the lines of the state file, <<>> when it is missing
    tmp,            \* the lines of the temporary file, None when missing
    lastDecision,   \* the last line of the decision log, None when empty
    pc,             \* where trustd is
    cur,            \* the caller being served
    outcome,        \* the reply that will be sent to it
    old,            \* file_update: the record the incoming one was checked against
    queue,          \* connections waiting for accept
    conn,           \* the state of each caller's connection
    request,        \* what each caller has sent
    answer          \* what each caller got last

store == <<disk, tmp, lastDecision>>
daemon == <<pc, cur, outcome, old>>
callers == <<queue, conn, request, answer>>
vars == <<store, daemon, callers>>

Serving == {"read", "load", "open", "write", "rename", "append",
            "last", "event", "reply"}

TypeOK ==
    /\ disk \in Seq(Manifest)
    /\ tmp \in Seq(Manifest) \cup {None}
    /\ lastDecision \in Decision \cup {None}
    /\ pc \in {"down", "accept"} \cup Serving
    /\ cur \in Client \cup {None}
    /\ outcome \in Answer \cup {None}
    /\ old \in Manifest \cup {None}
    /\ queue \in Seq(Client)
    /\ conn \in [Client -> {"idle", "connected", "sent", "hungup"}]
    /\ request \in [Client -> Request \cup {None}]
    /\ answer \in [Client -> Answer \cup {None}]

-----------------------------------------------------------------------------
\* What a file can hold after a flush that failed part of the way: whole
\* lines, or whole lines and one whose hash is cut short.
Truncations(file) ==
    {SubSeq(file, 1, k) : k \in 0 .. Len(file) - 1}
        \cup {[SubSeq(file, 1, k) EXCEPT ![k].hash = TornHash] : k \in DOMAIN file}

-----------------------------------------------------------------------------
Init ==
    /\ disk = <<>>
    /\ tmp = None
    /\ lastDecision = None
    /\ pc = "down"
    /\ cur = None
    /\ outcome = None
    /\ old = None
    /\ queue = <<>>
    /\ conn = [c \in Client |-> "idle"]
    /\ request = [c \in Client |-> None]
    /\ answer = [c \in Client |-> None]

-----------------------------------------------------------------------------
(* The callers.  tear_trust_* connects, sends one message and waits for    *)
(* one reply; a client can be killed at any point of that.                 *)

Connect(c) ==
    /\ pc # "down"
    /\ conn[c] = "idle"
    /\ conn' = [conn EXCEPT ![c] = "connected"]
    /\ queue' = Append(queue, c)
    /\ UNCHANGED <<store, daemon, request, answer>>

Send(c, r) ==
    /\ conn[c] = "connected"
    /\ conn' = [conn EXCEPT ![c] = "sent"]
    /\ request' = [request EXCEPT ![c] = r]
    /\ answer' = [answer EXCEPT ![c] = None]
    /\ UNCHANGED <<store, daemon, queue>>

HangUp(c) ==
    /\ conn[c] \in {"connected", "sent"}
    /\ conn' = [conn EXCEPT ![c] = "hungup"]
    /\ UNCHANGED <<store, daemon, queue, request, answer>>

-----------------------------------------------------------------------------
(* The accept loop.                                                        *)

Start ==
    /\ pc = "down"
    /\ pc' = "accept"
    /\ UNCHANGED <<store, cur, outcome, old, callers>>

Accept ==
    /\ pc = "accept"
    /\ queue # <<>>
    /\ cur' = Head(queue)
    /\ queue' = Tail(queue)
    /\ pc' = "read"
    /\ UNCHANGED <<store, outcome, old, conn, request, answer>>

\* Mutant of ReadNothing: read is retried when it returns 0.
ReadNothingRetries ==
    /\ pc = "read"
    /\ conn[cur] = "hungup"
    /\ request[cur] = None
    /\ UNCHANGED vars

\* Mutant of ReadNothing: the connection is not closed.
ReadNothingLeaks ==
    /\ pc = "read"
    /\ conn[cur] = "hungup"
    /\ request[cur] = None
    /\ cur' = None
    /\ pc' = "accept"
    /\ UNCHANGED <<store, outcome, old, callers>>

\* read returns 0: the peer closed without sending.
ReadNothing ==
    /\ pc = "read"
    /\ conn[cur] = "hungup"
    /\ request[cur] = None
    /\ conn' = [conn EXCEPT ![cur] = "idle"]
    /\ cur' = None
    /\ pc' = "accept"
    /\ UNCHANGED <<store, outcome, old, queue, request, answer>>

\* The first step of each handler.
Dispatch(r) ==
    CASE r.cmd \in {"ENROLL"} -> "open"
      [] r.cmd \in {"UPDATE", "VERIFY", "REPORT"} -> "load"
      [] r.cmd = "RECORD_DECISION" -> "append"
      [] r.cmd = "REPORT_DECISION" -> "last"

Malformed(r) ==
    /\ r.cmd \in ManifestCommand \cup {"RECORD_DECISION"}
    /\ r.arg = None

ReadMessage ==
    /\ pc = "read"
    /\ request[cur] # None
    /\ IF Malformed(request[cur])
       THEN outcome' = Reply("ERR") /\ pc' = "reply"
       ELSE pc' = Dispatch(request[cur]) /\ UNCHANGED outcome
    /\ UNCHANGED <<store, cur, old, callers>>

-----------------------------------------------------------------------------
(* The handlers.  A handler settles the reply, logs the manifest if the    *)
(* command carries one, and replies.                                       *)

Settle(a) ==
    /\ outcome' = a
    /\ old' = None
    /\ pc' = IF request[cur].cmd \in ManifestCommand THEN "event" ELSE "reply"

\* Mutant of LoadFails: the request is read again.
LoadFailsRetries ==
    /\ pc = "load"
    /\ pc' = "read"
    /\ UNCHANGED <<store, cur, outcome, old, callers>>

\* fopen fails for reading, the record is not there, or a store step fails.
LoadFails ==
    /\ pc = "load"
    /\ Settle(Reply("ERR"))
    /\ UNCHANGED <<store, cur, callers>>

\* Mutant of LoadForUpdate: model_update_allowed is not asked.
LoadForUpdateUnchecked ==
    LET m == request[cur].arg
        trusted == Lookup(disk, m.artifact) IN
    /\ pc = "load"
    /\ request[cur].cmd = "UPDATE"
    /\ trusted # None
    /\ pc' = "open"
    /\ old' = trusted
    /\ UNCHANGED <<store, cur, outcome, callers>>

LoadForUpdate ==
    LET m == request[cur].arg
        trusted == Lookup(disk, m.artifact) IN
    /\ pc = "load"
    /\ request[cur].cmd = "UPDATE"
    /\ trusted # None
    /\ IF UpdateAllowed(trusted, m)
       THEN pc' = "open" /\ old' = trusted /\ UNCHANGED outcome
       ELSE Settle(Reply("ERR"))
    /\ UNCHANGED <<store, cur, callers>>

LoadForVerify ==
    LET m == request[cur].arg
        trusted == Lookup(disk, m.artifact) IN
    /\ pc = "load"
    /\ request[cur].cmd = "VERIFY"
    /\ trusted # None
    /\ Settle(Reply(IF SameManifest(m, trusted) THEN "OK" ELSE "ERR"))
    /\ UNCHANGED <<store, cur, callers>>

\* file_report returns the first record of the file.
LoadForReport ==
    /\ pc = "load"
    /\ request[cur].cmd = "REPORT"
    /\ disk # <<>>
    /\ Settle(StateReply(disk[1]))
    /\ UNCHANGED <<store, cur, callers>>

\* tear_trusted_state_store opens both files; out must open.
OpenTmp ==
    /\ pc = "open"
    /\ tmp' = <<>>
    /\ pc' = "write"
    /\ UNCHANGED <<disk, lastDecision, cur, outcome, old, callers>>

OpenTmpFails ==
    /\ pc = "open"
    /\ Settle(Reply("ERR"))
    /\ UNCHANGED <<store, cur, callers>>

\* Mutant of WriteTmp: the lines of other artifacts are not copied.
WriteTmpOnlyNew ==
    /\ pc = "write"
    /\ tmp' = <<request[cur].arg>>
    /\ pc' = "rename"
    /\ UNCHANGED <<disk, lastDecision, cur, outcome, old, callers>>

\* Copy the lines and close both files.  A missing input is an empty one,
\* whatever made fopen fail, and the result of closing the output is ignored.
WriteTmp ==
    LET m == request[cur].arg IN
    /\ pc = "write"
    /\ \/ tmp' = Upsert(disk, m)
       \/ SilentFaults /\ tmp' = <<m>>
       \/ SilentFaults /\ tmp' \in Truncations(Upsert(disk, m))
    /\ pc' = "rename"
    /\ UNCHANGED <<disk, lastDecision, cur, outcome, old, callers>>

\* fprintf reports an error: the temporary file is removed.
WriteTmpFails ==
    /\ pc = "write"
    /\ tmp' = None
    /\ Settle(Reply("ERR"))
    /\ UNCHANGED <<disk, lastDecision, cur, callers>>

Rename ==
    /\ pc = "rename"
    /\ disk' = tmp
    /\ tmp' = None
    /\ Settle(Reply("OK"))
    /\ UNCHANGED <<lastDecision, cur, callers>>

\* Mutant of RenameFails: the result of rename is ignored.
RenameFailsUnnoticed ==
    /\ pc = "rename"
    /\ tmp' = None
    /\ Settle(Reply("OK"))
    /\ UNCHANGED <<disk, lastDecision, cur, callers>>

RenameFails ==
    /\ pc = "rename"
    /\ tmp' = None
    /\ Settle(Reply("ERR"))
    /\ UNCHANGED <<disk, lastDecision, cur, callers>>

\* tear_trusted_state_append_decision; again the close is not checked.
AppendDecision ==
    LET d == request[cur].arg IN
    /\ pc = "append"
    /\ \/ lastDecision' = d
       \/ SilentFaults /\ lastDecision' \in {lastDecision, TornDecision}
    /\ Settle(Reply("OK"))
    /\ UNCHANGED <<disk, tmp, cur, callers>>

AppendFails ==
    /\ pc = "append"
    /\ Settle(Reply("ERR"))
    /\ UNCHANGED <<store, cur, callers>>

\* Mutant of ReportDecision: an empty log is not refused.
ReportDecisionUnchecked ==
    /\ pc = "last"
    /\ Settle(DecisionReply(lastDecision))
    /\ UNCHANGED <<store, cur, callers>>

ReportDecision ==
    /\ pc = "last"
    /\ lastDecision # None
    /\ Settle(DecisionReply(lastDecision))
    /\ UNCHANGED <<store, cur, callers>>

ReportDecisionFails ==
    /\ pc = "last"
    /\ Settle(Reply("ERR"))
    /\ UNCHANGED <<store, cur, callers>>

-----------------------------------------------------------------------------
(* The end of a request, and the end of the daemon.                        *)

\* The process is gone: every caller connected to it reads end of file.
GoDown ==
    /\ pc' = "down"
    /\ cur' = None
    /\ outcome' = None
    /\ old' = None
    /\ queue' = <<>>
    /\ conn' = [c \in Client |-> "idle"]
    /\ request' = [c \in Client |-> None]
    /\ answer' = [c \in Client |->
                    IF request[c] = None THEN answer[c] ELSE Reply("LOST")]
    /\ UNCHANGED store

\* tear_event_manifest panics on a version that is not positive.
LogManifest ==
    /\ pc = "event"
    /\ request[cur].arg.version > 0
    /\ pc' = "reply"
    /\ UNCHANGED <<store, cur, outcome, old, callers>>

LogPanics ==
    /\ pc = "event"
    /\ request[cur].arg.version <= 0
    /\ GoDown

SendReply ==
    /\ pc = "reply"
    /\ conn[cur] = "sent"
    /\ answer' = [answer EXCEPT ![cur] = outcome]
    /\ conn' = [conn EXCEPT ![cur] = "idle"]
    /\ request' = [request EXCEPT ![cur] = None]
    /\ cur' = None
    /\ outcome' = None
    /\ pc' = "accept"
    /\ UNCHANGED <<store, old, queue>>

\* Nobody handles SIGPIPE: writing to a caller that is gone ends trustd.
ReplyBreaks ==
    /\ pc = "reply"
    /\ conn[cur] = "hungup"
    /\ GoDown

Kill ==
    /\ pc # "down"
    /\ GoDown

-----------------------------------------------------------------------------
Load == LoadFails \/ LoadForUpdate \/ LoadForVerify \/ LoadForReport
StoreFile == OpenTmp \/ OpenTmpFails \/ WriteTmp \/ WriteTmpFails
                \/ Rename \/ RenameFails
Decide == AppendDecision \/ AppendFails \/ ReportDecision \/ ReportDecisionFails
Finish == LogManifest \/ LogPanics \/ SendReply \/ ReplyBreaks

\* The steps trustd takes of itself.
Trustd == Accept \/ ReadNothing \/ ReadMessage \/ Load \/ StoreFile \/ Decide \/ Finish

ClientStep(c) == Connect(c) \/ (\E r \in Request : Send(c, r)) \/ HangUp(c)

Next ==
    \/ \E c \in Client : ClientStep(c)
    \/ Start
    \/ Trustd
    \/ Kill

Spec == Init /\ [][Next]_vars

\* trustd runs until it is ended, and a caller that connected sends at once.
Fairness ==
    /\ WF_vars(Trustd)
    /\ \A c \in Client : WF_vars(\E r \in Request : Send(c, r))

FairSpec == Spec /\ Fairness
=============================================================================
