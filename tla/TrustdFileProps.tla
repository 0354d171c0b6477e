-------------------------- MODULE TrustdFileProps --------------------------
(***************************************************************************)
(* What the file back end of trustd must guarantee, the mapping under      *)
(* which it implements TrustRegistry, and the inductive invariant that the *)
(* proofs use.                                                             *)
(***************************************************************************)
EXTENDS TrustdFile

(***************************************************************************)
(* A store never leaves two lines for one artifact, so the first-match     *)
(* read of tear_trusted_state_load_artifact and the replace-every-match    *)
(* write of tear_trusted_state_store mean the same record.                 *)
(***************************************************************************)
OneLinePerArtifact == OnePerArtifact(disk)

\* While a store is under way the state file still holds the record that
\* file_update checked the incoming one against, whoever connects or dies.
CheckedRecordStands ==
    pc \in {"open", "write", "rename"} /\ request[cur].cmd = "UPDATE" =>
        /\ old # None
        /\ Lookup(disk, request[cur].arg.artifact) = old
        /\ UpdateAllowed(old, request[cur].arg)

\* When OK is about to be sent for ENROLL or UPDATE, the state file on disk
\* holds the record: nothing after the rename can lose it.
OkMeansStored ==
    pc \in {"event", "reply"} /\ outcome = Reply("OK")
            /\ request[cur].cmd \in StoreCommand =>
        Lookup(disk, request[cur].arg.artifact) = request[cur].arg

-----------------------------------------------------------------------------
\* A store for one artifact leaves the trusted record of every other
\* artifact as it was, through failures, kills and restarts.
OthersUntouched ==
    [][\A a \in Artifact :
        Lookup(disk', a) # Lookup(disk, a) =>
            /\ pc = "rename"
            /\ request[cur].arg.artifact = a]_vars

\* The trusted version of an artifact goes down, its back end changes or its
\* record goes away only when an ENROLL of that very artifact is stored: no
\* sequence of updates, failures, kills and restarts rolls a model back.
RollbackOnlyByEnroll ==
    [][\A a \in Artifact :
        LET before == Lookup(disk, a)
            after == Lookup(disk', a) IN
        before # None /\ after # before =>
            \/ after # None /\ UpdateAllowed(before, after)
            \/ /\ pc = "rename"
               /\ request[cur].cmd = "ENROLL"
               /\ request[cur].arg.artifact = a]_vars

\* Even when file operations fail unnoticed and lines are lost, no version
\* that is read back goes down but by an ENROLL of the artifact.
FaultsNeverRollBack ==
    [][\A a \in Artifact :
        LET before == Lookup(disk, a)
            after == Lookup(disk', a) IN
        before # None /\ after # None /\ after.version < before.version =>
            /\ request[cur].cmd = "ENROLL"
            /\ request[cur].arg.artifact = a]_vars

\* REPORT is about the first line of the state file (tear_trusted_state_load).
\* Each artifact keeps the line that its first ENROLL gave it, so REPORT stays
\* about the first artifact that was enrolled, whatever is stored, fails or is
\* killed after that.
StoresKeepOrder == [][SamePlaces(disk, disk')]_vars

\* Every open connection is either the one being served or waits in the queue,
\* once; nothing else is served or waits, and nothing waits for a trustd that is
\* gone.  No path out of a handler, and no end of a caller or of trustd, leaves a
\* connection that nobody will close.
EveryCallerInLine ==
    /\ \A c \in Client : conn[c] # "idle" <=> c = cur \/ \E i \in DOMAIN queue : queue[i] = c
    /\ \A i \in DOMAIN queue : queue[i] # cur
    /\ \A i, j \in DOMAIN queue : queue[i] = queue[j] => i = j
    /\ pc = "down" => queue = <<>>

\* The steps that trustd still takes for a request at most, by where it is, and
\* what stands before a caller: the request in hand and those ahead of its own.
StepsLeft ==
    [down |-> 0, accept |-> 0, read |-> 7, load |-> 6, open |-> 5, write |-> 4,
     rename |-> 3, append |-> 3, last |-> 3, event |-> 2, reply |-> 1]

Place(c) == CHOOSE i \in DOMAIN queue : queue[i] = c

Distance(c) == StepsLeft[pc] + (IF c = cur THEN 0 ELSE 8 * Place(c))

\* Whatever trustd does brings every caller that waits closer to its reply, and
\* nothing that callers do pushes it back: no handler goes in circles, and no
\* connection overtakes another.
EveryStepServes ==
    [][\A c \in Client :
        conn[c] = "sent" /\ conn'[c] = "sent" =>
            IF UNCHANGED daemon THEN Distance(c)' = Distance(c)
                                ELSE Distance(c)' < Distance(c)]_vars

\* A caller whose message was sent gets a reply or loses its connection:
\* no request waits for ever behind others, behind a caller that was
\* killed, or across a crash of trustd.
EveryRequestEnds == \A c \in Client : conn[c] = "sent" ~> conn[c] # "sent"

-----------------------------------------------------------------------------
(***************************************************************************)
(* The refinement.  A request takes effect when its reply is settled: at   *)
(* the rename for a store, at the read for the others.  From then on its   *)
(* answer is decided, though the caller may never get it.                  *)
(***************************************************************************)
Settled(c) == c = cur /\ outcome # None

trustedBar == [a \in Artifact |-> Lookup(disk, a)]
stageBar == [c \in Client |->
    IF request[c] = None THEN "idle"
    ELSE IF Settled(c) THEN "served" ELSE "pending"]
answerBar == [c \in Client |-> IF Settled(c) THEN outcome ELSE answer[c]]

Registry == INSTANCE TrustRegistry WITH
    trusted <- trustedBar, stage <- stageBar, answer <- answerBar

\* trustd with the file back end is a TrustRegistry: each request takes
\* effect at once or not at all, whatever fails or dies on the way.
ImplementsRegistry == Registry!Spec

-----------------------------------------------------------------------------
(***************************************************************************)
(* The inductive invariant: the connection being served is open, its       *)
(* message is there once it was read and is one the handler takes, and the *)
(* temporary file that is about to be renamed is the state file with the   *)
(* incoming record in it.                                                  *)
(***************************************************************************)
CallersConsistent ==
    \A c \in Client :
        /\ conn[c] \in {"idle", "connected"} => request[c] = None
        /\ conn[c] = "sent" => request[c] # None

ServingConsistent ==
    /\ pc \in {"down", "accept"} => cur = None
    /\ pc \in Serving => cur \in Client
    /\ pc \in Serving \ {"read"} => request[cur] # None
    /\ outcome # None <=> pc \in {"event", "reply"}

HandlerConsistent ==
    /\ pc = "load" =>
        \/ request[cur].cmd \in {"UPDATE", "VERIFY"} /\ request[cur].arg \in Manifest
        \/ request[cur].cmd = "REPORT"
    /\ pc \in {"open", "write", "rename"} =>
        request[cur].cmd \in StoreCommand /\ request[cur].arg \in Manifest
    /\ pc = "append" =>
        request[cur].cmd = "RECORD_DECISION" /\ request[cur].arg \in Decision
    /\ pc = "last" => request[cur].cmd = "REPORT_DECISION"
    /\ pc = "event" =>
        request[cur].cmd \in ManifestCommand /\ request[cur].arg \in Manifest

\* What is renamed exists and has, like the state file, one line per artifact.
TmpConsistent ==
    /\ pc = "rename" => tmp # None
    /\ tmp # None => OnePerArtifact(tmp)

\* What holds whatever faults occur ...
BaseInv ==
    /\ TypeOK
    /\ CallersConsistent
    /\ ServingConsistent
    /\ HandlerConsistent
    /\ TmpConsistent
    /\ OneLinePerArtifact

\* ... and what holds when every fault is noticed.
RenameInstallsUpsert ==
    pc = "rename" => tmp = Upsert(disk, request[cur].arg)

IInv ==
    /\ BaseInv
    /\ CheckedRecordStands
    /\ RenameInstallsUpsert
    /\ OkMeansStored

-----------------------------------------------------------------------------
\* Under any faults too, what is about to be renamed over the state file is
\* older than it in at most the record that an ENROLL puts there ...
TmpNotOlder ==
    pc = "rename" =>
        \A a \in Artifact :
            LET before == Lookup(disk, a)
                after == Lookup(tmp, a) IN
            before # None /\ after # None /\ after.version < before.version =>
                /\ request[cur].cmd = "ENROLL"
                /\ request[cur].arg.artifact = a

\* ... because the record that an UPDATE was checked against is still there.
FaultInv ==
    /\ BaseInv
    /\ CheckedRecordStands
    /\ TmpNotOlder
=============================================================================
