-------------------------- MODULE TrustdFileEvents --------------------------
(***************************************************************************)
(* What the event log of trustd tells of the state file.  To TrustdFile a  *)
(* history variable is added: of each artifact, the record of the last     *)
(* model_enroll or model_update_ok event.  Nobody kills trustd here, so    *)
(* whatever is missing in the log is missing by trustd's own doing.        *)
(***************************************************************************)
EXTENDS TrustdFileProps

VARIABLE announced

eventsVars == <<vars, announced>>

EventsInit == Init /\ announced = [a \in Artifact |-> None]

\* handle_enroll and handle_update log the manifest once its store succeeded,
\* and before they reply.
Announce ==
    LET m == request[cur].arg IN
    /\ LogManifest
    /\ outcome = Reply("OK")
    /\ request[cur].cmd \in StoreCommand
    /\ announced' = [announced EXCEPT ![m.artifact] = m]

\* The other manifest events (_failed, _rejected, verify) are about records
\* that are not stored.
LogOther ==
    /\ LogManifest
    /\ ~(outcome = Reply("OK") /\ request[cur].cmd \in StoreCommand)
    /\ UNCHANGED announced

Unlogged ==
    /\ \/ \E c \in Client : ClientStep(c)
       \/ Start \/ Accept \/ ReadNothing \/ ReadMessage
       \/ Load \/ StoreFile \/ Decide
       \/ LogPanics \/ SendReply \/ ReplyBreaks
    /\ UNCHANGED announced

EventsNext == Announce \/ LogOther \/ Unlogged

EventsSpec == EventsInit /\ [][EventsNext]_eventsVars

\* "The trusted model version must not roll back silently"
\* (docs/invariants.md:4): when trustd is between two requests, or gone, no
\* version in the state file is lower than the one last announced for it.
NoSilentRollback ==
    pc \in {"accept", "down"} =>
        \A a \in Artifact :
            LET trusted == Lookup(disk, a) IN
            announced[a] # None /\ trusted # None =>
                trusted.version >= announced[a].version
=============================================================================
