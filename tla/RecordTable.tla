----------------------------- MODULE RecordTable -----------------------------
(***************************************************************************)
(* The table of trusted records that both back ends keep: a sequence of    *)
(* manifests, one per line.  runtime/trusted_state.c keeps it in a text    *)
(* file, optee/ta/tear_ta/ta_entry.c in a persistent object, and both read *)
(* and rewrite it in the same way.                                         *)
(***************************************************************************)
EXTENDS TrustRecords

LinesOf(table, a) == {i \in DOMAIN table : table[i].artifact = a}

\* The first record of the artifact, or None.
Lookup(table, a) ==
    LET L == LinesOf(table, a) IN
    IF L = {} THEN None
    ELSE table[CHOOSE i \in L : \A j \in L : i <= j]

\* Mutants of Upsert: the search for the artifact is left out; the line that
\* was read is written back in place of the new one; the old line is left out
\* and the new one written last.
UpsertAppends(table, m) == Append(table, m)

UpsertKeepsOld(table, m) ==
    IF LinesOf(table, m.artifact) = {} THEN Append(table, m) ELSE table

UpsertMovesToEnd(table, m) ==
    Append(SelectSeq(table, LAMBDA r : r.artifact # m.artifact), m)

\* Every record of the artifact is replaced, the others are copied, and the
\* new record is appended if none was replaced.
Upsert(table, m) ==
    IF LinesOf(table, m.artifact) = {} THEN Append(table, m)
    ELSE [i \in DOMAIN table |->
            IF table[i].artifact = m.artifact THEN m ELSE table[i]]

\* Each artifact keeps its place from one table to the next.
SamePlaces(before, after) ==
    \A i \in DOMAIN before :
        i \in DOMAIN after /\ after[i].artifact = before[i].artifact

\* At most one record per artifact: the first-match read and the
\* replace-every-match write then speak of the same record.
OnePerArtifact(table) ==
    \A i, j \in DOMAIN table :
        table[i].artifact = table[j].artifact => i = j
=============================================================================
