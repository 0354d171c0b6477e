--------------------------- MODULE InferenceProps ---------------------------
(***************************************************************************)
(* What the computations of an optimising run are meant to find: the two   *)
(* best classes of a result, and the scenario that README.md gives for an  *)
(* input and a result.                                                     *)
(***************************************************************************)
EXTENDS Inference

\* c holds the places of the best and the second best of the first n scores.
TwoBestOf(scores, n, c) ==
    /\ c \in [top1 : 1 .. n, top2 : 1 .. n] /\ c.top1 # c.top2
    /\ \A d \in 1 .. n : scores[d] <= scores[c.top1]
    /\ \A d \in 1 .. c.top1 - 1 : scores[d] < scores[c.top1]
    /\ \A d \in 1 .. n : d # c.top1 => scores[d] <= scores[c.top2]

TwoBest(scores) == TwoBestOf(scores, Len(scores), Confidence(scores))

SmallScores == UNION {[1 .. n -> 0 .. 3] : n \in 2 .. 4}
EverySmallScan == \A scores \in SmallScores : TwoBest(scores)

\* One class leads every other by the margin that the optimizer asks for.
ClearWinner(scores) ==
    \E d \in DOMAIN scores :
        \A e \in DOMAIN scores \ {d} : scores[d] - scores[e] >= 500

\* The scenarios of README.md, "MVP-5".
Scenario(i) ==
    CASE i.sample = "noise" -> Outcome("reject_input")
      [] i.sample # "noise" /\ ClearWinner(i.scores) -> Outcome("keep_current_profile")
      [] OTHER -> Outcome("request_high_accuracy_profile")
=============================================================================
