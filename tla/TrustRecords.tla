---------------------------- MODULE TrustRecords ----------------------------
(***************************************************************************)
(* The data that trustd, its two back ends and their callers exchange: the *)
(* model manifest that is trusted for an artifact, the requests of the     *)
(* line protocol of runtime/trustd.c and the replies to them.              *)
(*                                                                         *)
(* Identifiers, back-end names, hashes and decision records are compared   *)
(* for equality only, so they are members of arbitrary sets; versions are  *)
(* ordered, so they are integers.  The sscanf/printf pairs that carry a    *)
(* manifest over the socket are abstracted to "the fields arrive, or the   *)
(* message does not parse": the latter is an argument equal to None.       *)
(***************************************************************************)
EXTENDS Integers, Sequences

CONSTANTS
    Artifact,   \* artifact_id
    Version,    \* the versions manifests carry; atoi and %d allow any integer
    Backend,    \* backend
    Hash,       \* model_hash
    Decision,   \* the text of a recorded optimisation decision
    None        \* no record, no argument, no answer

Manifest ==
    [artifact : Artifact, version : Version, backend : Backend, hash : Hash]

ASSUME VersionAssumption == Version \subseteq Int
ASSUME NoneAssumption ==
    /\ None \notin Artifact
    /\ None \notin Manifest
    /\ None \notin Decision

(***************************************************************************)
(* same_manifest compares all four fields; model_update_allowed lets an    *)
(* update keep the artifact and the back end and raise the version.        *)
(***************************************************************************)
SameManifest(a, b) ==
    /\ a.artifact = b.artifact
    /\ a.version = b.version
    /\ a.backend = b.backend
    /\ a.hash = b.hash

UpdateAllowed(old, new) ==
    /\ old.artifact = new.artifact
    /\ old.backend = new.backend
    /\ new.version > old.version

(***************************************************************************)
(* The commands of the protocol.  An argument None is a message whose      *)
(* fields do not parse; REPORT and REPORT_DECISION have no argument.       *)
(***************************************************************************)
StoreCommand == {"ENROLL", "UPDATE"}
ManifestCommand == StoreCommand \cup {"VERIFY"}

Request ==
    [cmd : ManifestCommand, arg : Manifest \cup {None}]
        \cup [cmd : {"RECORD_DECISION"}, arg : Decision \cup {None}]
        \cup [cmd : {"REPORT", "REPORT_DECISION"}, arg : {None}]

(***************************************************************************)
(* What a caller gets: the reply line of trustd, or no reply at all when   *)
(* the connection breaks (LOST: read returns 0 or an error).               *)
(***************************************************************************)
Reply(kind) == [kind |-> kind, val |-> None]
StateReply(m) == [kind |-> "STATE", val |-> m]
DecisionReply(d) == [kind |-> "DECISION", val |-> d]

Answer ==
    [kind : {"OK", "ERR", "LOST"}, val : {None}]
        \cup [kind : {"STATE"}, val : Manifest]
        \cup [kind : {"DECISION"}, val : Decision]

ASSUME NoneIsNoMessage == None \notin Request /\ None \notin Answer
ASSUME NoneIsNoTable == None \notin Seq(Manifest)
=============================================================================
