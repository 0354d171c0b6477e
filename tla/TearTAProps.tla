----------------------------- MODULE TearTAProps -----------------------------
(***************************************************************************)
(* What the OP-TEE back end must guarantee, and the mapping under which it *)
(* implements TrustRegistry as long as its commands do not overlap.        *)
(***************************************************************************)
EXTENDS TearTA, FiniteSets

\* The table is written with one record per artifact, by however many
\* sessions at once.
OneRecordPerArtifact == OnePerArtifact(db)

\* What upsert_trusted_state writes, read_trusted_state_db can read back: the
\* limit on writing and the limit on reading agree, so a full table never
\* locks the device out of its trusted state.
TableStaysReadable == db # <<>> => Readable(db)

\* The trusted version of an artifact goes down, its back end changes or its
\* record goes away only by an ENROLL of that very artifact.
RollbackOnlyByEnroll ==
    [][\A a \in Artifact :
        LET before == Lookup(db, a)
            after == Lookup(db', a) IN
        before # None /\ after # before =>
            \/ after # None /\ UpdateAllowed(before, after)
            \/ \E s \in Session :
                /\ pc[s] = "write"
                /\ pc'[s] = "done"
                /\ request[s].cmd = "ENROLL"
                /\ request[s].arg.artifact = a]_vars

\* The table has changed since the command of s read it, at the second or at
\* the first of its two reads: another session has written in between.
Overlapped(s) ==
    \/ table[s] # db
    \/ /\ request[s].cmd = "UPDATE"
       /\ found[s] # Lookup(table[s], request[s].arg.artifact)

\* Nothing but overlap weakens the rollback policy: with any number of sessions,
\* a record goes back or away only when an ENROLL of it is written, or by the
\* write of a command during which another session has written.
RollbackNeedsOverlap ==
    [][\A a \in Artifact :
        LET before == Lookup(db, a)
            after == Lookup(db', a) IN
        before # None /\ after # before =>
            \/ after # None /\ UpdateAllowed(before, after)
            \/ \E s \in Session :
                /\ pc[s] = "write"
                /\ pc'[s] = "done"
                /\ \/ request[s].cmd = "ENROLL" /\ request[s].arg.artifact = a
                   \/ Overlapped(s)]_vars

\* REPORT is about the last record of the table (latest_trusted_state): each
\* artifact keeps the place that its first ENROLL gave it, so REPORT is about the
\* latest newcomer, whatever is updated or enrolled again, fails or restarts.
StoresKeepOrder == [][SamePlaces(db, db')]_vars

-----------------------------------------------------------------------------
(***************************************************************************)
(* The refinement: a command takes effect at the step that settles its     *)
(* result.                                                                 *)
(***************************************************************************)
trustedBar == [a \in Artifact |-> Lookup(db, a)]
stageBar == [s \in Session |->
    CASE pc[s] = "idle" -> "idle"
      [] pc[s] = "done" -> "served"
      [] OTHER -> "pending"]

Registry == INSTANCE TrustRegistry WITH
    Client <- Session, trusted <- trustedBar, stage <- stageBar

\* The application is a TrustRegistry for a caller whose commands do not
\* overlap with another's, as trustd's do not.
ImplementsRegistry == Registry!Spec

-----------------------------------------------------------------------------
(***************************************************************************)
(* The inductive invariants.  BaseInv holds for any number of sessions:    *)
(* each works on a request its step takes, and every table it holds or     *)
(* leaves behind has one record per artifact; UpdateChecked too.           *)
(* SerialInv is what a single session adds: nothing changes the table      *)
(* between its steps.                                                      *)
(***************************************************************************)
SessionConsistent ==
    \A s \in Session :
        /\ pc[s] = "idle" <=> request[s] = None
        /\ pc[s] = "find" =>
            request[s].cmd \in {"UPDATE", "VERIFY"} /\ request[s].arg \in Manifest
        /\ pc[s] \in {"read", "write"} =>
            request[s].cmd \in StoreCommand /\ request[s].arg \in Manifest
        /\ pc[s] = "record" =>
            request[s].cmd = "RECORD_DECISION" /\ request[s].arg \in Decision
        /\ pc[s] = "latest" => request[s].cmd = "REPORT"
        /\ pc[s] = "decision" => request[s].cmd = "REPORT_DECISION"

BaseInv ==
    /\ TypeOK
    /\ SessionConsistent
    /\ OneRecordPerArtifact
    /\ \A s \in Session : OnePerArtifact(table[s])

\* An UPDATE on its way to the table was checked against a record it found.
UpdateChecked ==
    \A s \in Session :
        pc[s] \in {"read", "write"} /\ request[s].cmd = "UPDATE" =>
            found[s] \in Manifest /\ UpdateAllowed(found[s], request[s].arg)

\* What a command has read is what the table still holds.
NothingBetween ==
    \A s \in Session :
        /\ pc[s] = "write" => table[s] = db
        /\ pc[s] \in {"read", "write"} /\ request[s].cmd = "UPDATE" =>
            found[s] = Lookup(db, request[s].arg.artifact)

SerialInv ==
    /\ BaseInv
    /\ UpdateChecked
    /\ NothingBetween
=============================================================================
