------------------------------- MODULE TearTA -------------------------------
(***************************************************************************)
(* The OP-TEE back end: the client side in optee/ca/tear_optee_client.c,   *)
(* and the trusted application in optee/ta/tear_ta/ta_entry.c, which keeps *)
(* the table of trusted records in one persistent object and the last      *)
(* decision in another.                                                    *)
(*                                                                         *)
(* Every call of the client opens a session, invokes one command and       *)
(* closes the session.  The application is neither single-instance nor     *)
(* locked (TA_FLAGS), so sessions of two processes run side by side, and   *)
(* a command reads the table once or twice and then overwrites it.  One    *)
(* access to a persistent object is atomic; it can fail, for lack of       *)
(* space, by conflict with another session or by corruption.               *)
(***************************************************************************)
EXTENDS RecordTable

LOCAL INSTANCE Functions

CONSTANTS
    Session,    \* the processes that invoke the application
    RecLen,     \* the length of the text of a manifest
    DbMax       \* TEAR_STATE_DB_MAX, the size of the table's buffer

ASSUME SessionAssumption == None \notin Session
ASSUME LengthAssumption == RecLen \in [Manifest -> Nat \ {0}] /\ DbMax \in Nat

VARIABLES
    db,             \* tear.trusted_state.v1, <<>> when it does not exist
    lastDecision,   \* tear.last_decision.v1, None when it does not exist
    pc,             \* where the command of each session is
    request,        \* the command and its input
    found,          \* the record find_trusted_state copied out
    table,          \* the db buffer of upsert_trusted_state
    answer          \* what the session got last, None while it waits

storage == <<db, lastDecision>>
vars == <<storage, pc, request, found, table, answer>>

TypeOK ==
    /\ db \in Seq(Manifest)
    /\ lastDecision \in Decision \cup {None}
    /\ pc \in [Session -> {"idle", "find", "read", "write", "record",
                            "latest", "decision", "done"}]
    /\ request \in [Session -> Request \cup {None}]
    /\ found \in [Session -> Manifest \cup {None}]
    /\ table \in [Session -> Seq(Manifest)]
    /\ answer \in [Session -> Answer \cup {None}]

-----------------------------------------------------------------------------
\* Each record is followed by a newline.
Bytes(t) == SumFunction([i \in DOMAIN t |-> RecLen[t[i]] + 1])

\* append_record refuses the record that would fill the buffer: the table is
\* built if, with its last record, it is still shorter.
Appendable(t) == Bytes(t) < DbMax

\* write_trusted_state_db refuses a table that is empty or fills its buffer.
Writable(t) == t # <<>> /\ Bytes(t) < DbMax

\* Mutant of Readable: room is kept for a terminating NUL.
ReadableTerminated(t) == t # <<>> /\ Bytes(t) + 1 < DbMax

\* read_trusted_state_db refuses an object that is empty or fills its buffer.
Readable(t) == t # <<>> /\ Bytes(t) < DbMax

\* parse_state: parse_positive_int takes digits only.
Parses(m) == m.version >= 0

Init ==
    /\ db = <<>>
    /\ lastDecision = None
    /\ pc = [s \in Session |-> "idle"]
    /\ request = [s \in Session |-> None]
    /\ found = [s \in Session |-> None]
    /\ table = [s \in Session |-> <<>>]
    /\ answer = [s \in Session |-> None]

-----------------------------------------------------------------------------
(* One command of session s, step by step.                                 *)

Goto(s, next) ==
    /\ pc' = [pc EXCEPT ![s] = next]
    /\ UNCHANGED <<request, answer>>

\* The command returns; its buffers go with its stack.
Finish(s, a) ==
    /\ pc' = [pc EXCEPT ![s] = "done"]
    /\ answer' = [answer EXCEPT ![s] = a]
    /\ found' = [found EXCEPT ![s] = None]
    /\ table' = [table EXCEPT ![s] = <<>>]
    /\ UNCHANGED request

\* The command a session starts with; trustd has parsed the message.
Entry(r) ==
    CASE r.cmd = "ENROLL" -> "read"
      [] r.cmd \in {"UPDATE", "VERIFY"} -> "find"
      [] r.cmd = "RECORD_DECISION" -> "record"
      [] r.cmd = "REPORT" -> "latest"
      [] r.cmd = "REPORT_DECISION" -> "decision"

NeedsArgument(r) == r.cmd \in ManifestCommand \cup {"RECORD_DECISION"}

Invoke(s, r) ==
    /\ pc[s] = "idle"
    /\ NeedsArgument(r) => r.arg # None
    /\ pc' = [pc EXCEPT ![s] = Entry(r)]
    /\ request' = [request EXCEPT ![s] = r]
    /\ answer' = [answer EXCEPT ![s] = None]
    /\ UNCHANGED <<storage, found, table>>

\* The context or the session does not open, an access to storage fails, or
\* the input does not parse: the command ends with an error and no effect.
Fail(s) ==
    /\ pc[s] \notin {"idle", "done"}
    /\ Finish(s, Reply("ERR"))
    /\ UNCHANGED storage

\* find_trusted_state reads the table and takes the first record of the
\* artifact; without a table that can be read it finds nothing.
Found(s) ==
    IF Readable(db) THEN Lookup(db, request[s].arg.artifact) ELSE None

\* Mutant of FindForUpdate: tear_model_update_allowed is not asked.
FindForUpdateUnchecked(s) ==
    /\ pc[s] = "find"
    /\ request[s].cmd = "UPDATE"
    /\ Parses(request[s].arg)
    /\ Found(s) # None
    /\ found' = [found EXCEPT ![s] = Found(s)]
    /\ Goto(s, "read")
    /\ UNCHANGED <<storage, table>>

\* tear_update_model compares the input with the record it finds.
FindForUpdate(s) ==
    LET m == request[s].arg IN
    /\ pc[s] = "find"
    /\ request[s].cmd = "UPDATE"
    /\ Parses(m)
    /\ Found(s) # None
    /\ UpdateAllowed(Found(s), m)
    /\ found' = [found EXCEPT ![s] = Found(s)]
    /\ Goto(s, "read")
    /\ UNCHANGED <<storage, table>>

\* VERIFY settles its result at once.
FindForVerify(s) ==
    LET m == request[s].arg IN
    /\ pc[s] = "find"
    /\ request[s].cmd = "VERIFY"
    /\ Parses(m)
    /\ Found(s) # None
    /\ SameManifest(m, Found(s))
    /\ Finish(s, Reply("OK"))
    /\ UNCHANGED storage

\* Mutant of ReadTable: any error of the read is taken for a missing table.
ReadTableForgives(s) ==
    /\ pc[s] = "read"
    /\ Parses(request[s].arg)
    /\ \E t \in {db, <<>>} : table' = [table EXCEPT ![s] = t]
    /\ Goto(s, "write")
    /\ UNCHANGED <<storage, found>>

\* upsert_trusted_state reads the table again; no table is an empty one.
ReadTable(s) ==
    /\ pc[s] = "read"
    /\ Parses(request[s].arg)
    /\ db = <<>> \/ Readable(db)
    /\ table' = [table EXCEPT ![s] = db]
    /\ Goto(s, "write")
    /\ UNCHANGED <<storage, found>>

\* Mutant of WriteTable: the result of append_record is ignored.
WriteTableUnchecked(s) ==
    LET out == Upsert(table[s], request[s].arg) IN
    /\ pc[s] = "write"
    /\ db' = IF Appendable(out) THEN out ELSE table[s]
    /\ Writable(db')
    /\ Finish(s, Reply("OK"))
    /\ UNCHANGED lastDecision

\* The new table is built in memory, and overwrites the object only if all
\* of it fits.
WriteTable(s) ==
    LET out == Upsert(table[s], request[s].arg) IN
    /\ pc[s] = "write"
    /\ Appendable(out)
    /\ Writable(out)
    /\ db' = out
    /\ Finish(s, Reply("OK"))
    /\ UNCHANGED lastDecision

\* latest_trusted_state: the last record of the table.
Latest(s) ==
    /\ pc[s] = "latest"
    /\ Readable(db)
    /\ Finish(s, StateReply(db[Len(db)]))
    /\ UNCHANGED storage

RecordDecision(s) ==
    /\ pc[s] = "record"
    /\ lastDecision' = request[s].arg
    /\ Finish(s, Reply("OK"))
    /\ UNCHANGED db

\* Mutant of ReportDecision: a missing object is not refused.
ReportDecisionUnchecked(s) ==
    /\ pc[s] = "decision"
    /\ Finish(s, DecisionReply(lastDecision))
    /\ UNCHANGED storage

ReportDecision(s) ==
    /\ pc[s] = "decision"
    /\ lastDecision # None
    /\ Finish(s, DecisionReply(lastDecision))
    /\ UNCHANGED storage

\* The client takes the result and closes the session.
Return(s) ==
    /\ pc[s] = "done"
    /\ pc' = [pc EXCEPT ![s] = "idle"]
    /\ request' = [request EXCEPT ![s] = None]
    /\ UNCHANGED <<storage, found, table, answer>>

\* The device restarts: what is not in persistent objects is gone.
PowerLoss ==
    /\ pc' = [s \in Session |-> "idle"]
    /\ request' = [s \in Session |-> None]
    /\ found' = [s \in Session |-> None]
    /\ table' = [s \in Session |-> <<>>]
    /\ answer' = [s \in Session |->
                    IF request[s] = None THEN answer[s] ELSE Reply("LOST")]
    /\ UNCHANGED storage

-----------------------------------------------------------------------------
Command(s) ==
    \/ FindForUpdate(s)
    \/ FindForVerify(s)
    \/ ReadTable(s)
    \/ WriteTable(s)
    \/ Latest(s)
    \/ RecordDecision(s)
    \/ ReportDecision(s)
    \/ Fail(s)
    \/ Return(s)

Next ==
    \/ \E s \in Session : (\E r \in Request : Invoke(s, r)) \/ Command(s)
    \/ PowerLoss

Spec == Init /\ [][Next]_vars
=============================================================================
