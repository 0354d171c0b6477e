------------------------- MODULE RecordTable_proofs -------------------------
(***************************************************************************)
(* What reading and rewriting the table of trusted records does, for every *)
(* table: the facts about Lookup and Upsert that the proofs of the two     *)
(* back ends rest on.                                                      *)
(***************************************************************************)
EXTENDS RecordTable, SequenceTheorems, TLAPS

-----------------------------------------------------------------------------
(* The data of the protocol.                                               *)

\* The argument of a request that parsed is what its command takes.
LEMMA RequestArgument ==
    ASSUME NEW r \in Request
    PROVE  /\ r.cmd \in ManifestCommand => r.arg \in Manifest \cup {None}
           /\ r.cmd = "RECORD_DECISION" => r.arg \in Decision \cup {None}
           /\ r.cmd \in {"ENROLL", "UPDATE", "VERIFY", "RECORD_DECISION",
                         "REPORT", "REPORT_DECISION"}
           /\ r # None
BY NoneIsNoMessage DEF Request, ManifestCommand, StoreCommand

\* Replies are answers, and none of them is None.
LEMMA ReplyTypes ==
    /\ Reply("OK") \in Answer /\ Reply("ERR") \in Answer /\ Reply("LOST") \in Answer
    /\ \A m \in Manifest : StateReply(m) \in Answer
    /\ \A d \in Decision : DecisionReply(d) \in Answer
    /\ None \notin Answer
    /\ Reply("OK") # Reply("ERR")
BY NoneIsNoMessage DEF Answer, Reply, StateReply, DecisionReply

-----------------------------------------------------------------------------
(* The table.                                                              *)

\* With one record per artifact, the first-match read finds the record.
LEMMA LookupFinds ==
    ASSUME NEW table \in Seq(Manifest), OnePerArtifact(table),
           NEW i \in DOMAIN table
    PROVE  Lookup(table, table[i].artifact) = table[i]
<1> DEFINE L == LinesOf(table, table[i].artifact)
<1>1. L = {i}
  BY DEF OnePerArtifact, LinesOf
<1>2. (CHOOSE k \in L : \A j \in L : k <= j) = i
  BY <1>1, SMT
<1>3. QED
  BY <1>1, <1>2 DEF Lookup

\* An artifact without a record reads as None.
LEMMA LookupMisses ==
    ASSUME NEW table, NEW a, \A i \in DOMAIN table : table[i].artifact # a
    PROVE  Lookup(table, a) = None
BY DEF Lookup, LinesOf

\* A read returns a record of the artifact or None.
LEMMA LookupType ==
    ASSUME NEW table \in Seq(Manifest), OnePerArtifact(table), NEW a
    PROVE  /\ Lookup(table, a) \in Manifest \cup {None}
           /\ Lookup(table, a) # None => Lookup(table, a).artifact = a
<1>1. CASE \E i \in DOMAIN table : table[i].artifact = a
  <2>1. PICK i \in DOMAIN table : table[i].artifact = a
    BY <1>1
  <2>2. Lookup(table, a) = table[i]
    BY <2>1, LookupFinds
  <2>3. table[i] \in Manifest
    BY <2>1
  <2>4. QED
    BY <2>1, <2>2, <2>3
<1>2. CASE ~ \E i \in DOMAIN table : table[i].artifact = a
  BY <1>2, LookupMisses
<1>3. QED
  BY <1>1, <1>2

\* What a store writes is a table again.
LEMMA UpsertType ==
    ASSUME NEW table \in Seq(Manifest), NEW m \in Manifest
    PROVE  Upsert(table, m) \in Seq(Manifest)
<1>1. CASE LinesOf(table, m.artifact) = {}
  BY <1>1 DEF Upsert
<1>2. CASE LinesOf(table, m.artifact) # {}
  <2> DEFINE new == [i \in 1 .. Len(table) |->
                        IF table[i].artifact = m.artifact THEN m ELSE table[i]]
  <2>1. DOMAIN table = 1 .. Len(table) /\ Len(table) \in Nat
    OBVIOUS
  <2>2. \A i \in 1 .. Len(table) : new[i] \in Manifest
    BY <2>1
  <2>3. new \in Seq(Manifest)
    BY <2>1, <2>2, IsASeq
  <2>4. QED
    BY <1>2, <2>1, <2>3 DEF Upsert
<1>3. QED
  BY <1>1, <1>2

\* A store leaves every artifact in its place: the new record comes where the
\* old one was, or last.
LEMMA UpsertKeepsPlaces ==
    ASSUME NEW table \in Seq(Manifest), NEW m \in Manifest
    PROVE  SamePlaces(table, Upsert(table, m))
<1>1. CASE LinesOf(table, m.artifact) = {}
  <2>1. \A i \in DOMAIN table :
            i \in DOMAIN Append(table, m) /\ Append(table, m)[i] = table[i]
    OBVIOUS
  <2>2. QED
    BY <1>1, <2>1 DEF Upsert, SamePlaces
<1>2. CASE LinesOf(table, m.artifact) # {}
  <2>1. Upsert(table, m) = [i \in DOMAIN table |->
            IF table[i].artifact = m.artifact THEN m ELSE table[i]]
    BY <1>2 DEF Upsert
  <2>2. QED
    BY <2>1 DEF SamePlaces
<1>3. QED
  BY <1>1, <1>2

\* A store keeps one record per artifact, and a read after it returns the
\* stored record for its artifact and what was there for every other.
LEMMA UpsertLookup ==
    ASSUME NEW table \in Seq(Manifest), OnePerArtifact(table),
           NEW m \in Manifest
    PROVE  /\ OnePerArtifact(Upsert(table, m))
           /\ \A a : Lookup(Upsert(table, m), a) =
                        IF a = m.artifact THEN m ELSE Lookup(table, a)
<1> DEFINE new == Upsert(table, m)
<1>0. new \in Seq(Manifest)
  BY UpsertType
<1>1. CASE LinesOf(table, m.artifact) = {}
  <2>1. new = Append(table, m)
    BY <1>1 DEF Upsert
  <2>2. /\ DOMAIN new = 1 .. Len(table) + 1
        /\ DOMAIN table = 1 .. Len(table)
        /\ Len(table) \in Nat
        /\ \A i \in DOMAIN table : new[i] = table[i]
        /\ new[Len(table) + 1] = m
    BY <2>1
  <2>3. \A i \in DOMAIN table : table[i].artifact # m.artifact
    BY <1>1 DEF LinesOf
  <2>4. OnePerArtifact(new)
    BY <2>2, <2>3 DEF OnePerArtifact
  <2>5. ASSUME NEW a
        PROVE  Lookup(new, a) = IF a = m.artifact THEN m ELSE Lookup(table, a)
    <3>1. CASE a = m.artifact
      <4>1. Len(table) + 1 \in DOMAIN new
        BY <2>2
      <4>2. QED
        BY <1>0, <2>2, <2>4, <3>1, <4>1, LookupFinds
    <3>2. CASE a # m.artifact /\ \E i \in DOMAIN table : table[i].artifact = a
      <4>1. PICK i \in DOMAIN table : table[i].artifact = a
        BY <3>2
      <4>2. i \in DOMAIN new /\ new[i] = table[i]
        BY <2>2, <4>1
      <4>3. Lookup(table, a) = table[i]
        BY <4>1, LookupFinds
      <4>4. Lookup(new, a) = table[i]
        BY <1>0, <2>4, <4>1, <4>2, LookupFinds
      <4>5. QED
        BY <3>2, <4>3, <4>4
    <3>3. CASE a # m.artifact /\ ~ \E i \in DOMAIN table : table[i].artifact = a
      <4>1. \A i \in DOMAIN new : new[i].artifact # a
        BY <2>2, <3>3
      <4>2. QED
        BY <3>3, <4>1, LookupMisses
    <3>4. QED
      BY <3>1, <3>2, <3>3
  <2>6. QED
    BY <2>4, <2>5
<1>2. CASE LinesOf(table, m.artifact) # {}
  <2>1. new = [i \in DOMAIN table |->
                IF table[i].artifact = m.artifact THEN m ELSE table[i]]
    BY <1>2 DEF Upsert
  <2>2. /\ DOMAIN new = DOMAIN table
        /\ \A i \in DOMAIN table :
            /\ new[i].artifact = table[i].artifact
            /\ table[i].artifact = m.artifact => new[i] = m
            /\ table[i].artifact # m.artifact => new[i] = table[i]
    BY <2>1
  <2>3. OnePerArtifact(new)
    BY <2>2 DEF OnePerArtifact
  <2>4. ASSUME NEW a
        PROVE  Lookup(new, a) = IF a = m.artifact THEN m ELSE Lookup(table, a)
    <3>1. CASE \E i \in DOMAIN table : table[i].artifact = a
      <4>1. PICK i \in DOMAIN table : table[i].artifact = a
        BY <3>1
      <4>2. i \in DOMAIN new /\ new[i].artifact = a
        BY <2>2, <4>1
      <4>3. Lookup(new, a) = new[i]
        BY <1>0, <2>3, <4>2, LookupFinds
      <4>4. Lookup(table, a) = table[i]
        BY <4>1, LookupFinds
      <4>5. QED
        BY <2>2, <4>1, <4>3, <4>4
    <3>2. CASE ~ \E i \in DOMAIN table : table[i].artifact = a
      <4>1. a # m.artifact
        BY <1>2, <3>2 DEF LinesOf
      <4>2. Lookup(table, a) = None
        BY <3>2, LookupMisses
      <4>3. \A i \in DOMAIN new : new[i].artifact # a
        BY <2>2, <3>2
      <4>4. Lookup(new, a) = None
        BY <4>3, LookupMisses
      <4>5. QED
        BY <4>1, <4>2, <4>4
    <3>3. QED
      BY <3>1, <3>2
  <2>5. QED
    BY <2>3, <2>4
<1>3. QED
  BY <1>1, <1>2
=============================================================================
