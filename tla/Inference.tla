------------------------------ MODULE Inference ------------------------------
(***************************************************************************)
(* The computations of one optimising run: what the MNIST workload         *)
(* measures about its input and its result, what the optimizer proposes    *)
(* from that, and what the runtime manager makes of the proposal.          *)
(*                                                                         *)
(* The network is not modelled: it is a sequence of scores.  Scores and    *)
(* margins are integers, in thousandths, pixels in hundredths; the         *)
(* rounding of float arithmetic is not modelled.                           *)
(***************************************************************************)
EXTENDS Integers, Sequences, FiniteSets

Sample == {"clean7", "weak7", "noise"}

-----------------------------------------------------------------------------
(* The input: 28 x 28 pixels, a seven or noise.                            *)

Pixels == 0 .. 783

Image(s) ==
    LET ink == IF s = "weak7" THEN 35 ELSE 100
        shade == (ink * 8) \div 10
        Seven(x, y) ==
            CASE y = 7 /\ x \in 6 .. 21 -> ink
              [] y \in 8 .. 21 /\ x = 29 - y -> ink
              [] y \in 8 .. 21 /\ x = 30 - y -> shade
              [] OTHER -> 0
    IN  [i \in Pixels |->
            IF s = "noise" THEN IF i % 7 = 0 \/ i % 19 = 0 THEN 100 ELSE 0
                           ELSE Seven(i % 28, i \div 28)]

Density ==
    [s \in Sample |->
        LET image == Image(s) IN
        (Cardinality({i \in Pixels : image[i] > 20}) * 1000)
            \div Cardinality(Pixels)]

-----------------------------------------------------------------------------
(* The result: one scan over the scores keeps the two largest.             *)

\* A mutant: a new best score does not push the old one to second place.
ForgetsSecond(scores, c, i) ==
    CASE scores[i] > scores[c.top1] -> [c EXCEPT !.top1 = i]
      [] scores[i] \in scores[c.top2] + 1 .. scores[c.top1] -> [c EXCEPT !.top2 = i]
      [] OTHER -> c

Scan(scores, c, i) ==
    CASE scores[i] > scores[c.top1] -> [top1 |-> i, top2 |-> c.top1]
      [] scores[i] \in scores[c.top2] + 1 .. scores[c.top1] -> [c EXCEPT !.top2 = i]
      [] OTHER -> c

\* mnist_get_confidence; class d of the network is score d + 1.
FirstTwo(scores) ==
    IF scores[2] > scores[1] THEN [top1 |-> 2, top2 |-> 1] ELSE [top1 |-> 1, top2 |-> 2]

Confidence(scores) ==
    LET scan[n \in Nat] ==
            IF n <= 2 THEN FirstTwo(scores) ELSE Scan(scores, scan[n - 1], n)
    IN  scan[Len(scores)]

Margin(scores) ==
    LET c == Confidence(scores) IN scores[c.top1] - scores[c.top2]

\* What the workload writes to its metrics file.
Metrics(sample, scores) ==
    [margin |-> Margin(scores), density |-> Density[sample]]

-----------------------------------------------------------------------------
(* The optimizer and the manager's policy.                                 *)

Action == {"reject_input", "request_high_accuracy_profile", "keep_current_profile"}

\* tear_optimizer_propose.
Propose(metrics) ==
    CASE metrics.density > 100 -> "reject_input"
      [] metrics.density <= 100 /\ metrics.margin < 500 ->
            "request_high_accuracy_profile"
      [] OTHER -> "keep_current_profile"

\* approve_or_reject_proposal and, for no answer, record_optimizer_decision.
\* A proposal "none" is optd's NO_PROPOSAL.
Outcome(proposal) ==
    CASE proposal = "keep_current_profile" ->
            [proposal |-> proposal, decision |-> "approved", reason |-> "policy_allows"]
      [] proposal = "reject_input" ->
            [proposal |-> proposal, decision |-> "approved", reason |-> "input_rejected"]
      [] proposal = "request_high_accuracy_profile" ->
            [proposal |-> proposal, decision |-> "rejected", reason |-> "profile_unavailable"]
      [] proposal = "none" ->
            [proposal |-> "none", decision |-> "rejected", reason |-> "metrics_missing"]
      [] OTHER ->
            [proposal |-> "none", decision |-> "rejected", reason |-> "optimizer_unavailable"]

OutcomeSet == {Outcome(p) : p \in Action \cup {"none", "unavailable"}}
=============================================================================
