-------------------------- MODULE Inference_proofs --------------------------
(***************************************************************************)
(* Proofs about the computations of an optimising run: the scan for the    *)
(* two best classes, for every list of scores, and the density of the      *)
(* images.                                                                 *)
(*                                                                         *)
(* What is proved for every n is proved by a least counterexample: the     *)
(* library's induction theorems take an operator, WFMin takes a set.       *)
(***************************************************************************)
EXTENDS InferenceProps, FiniteSetTheorems, TLAPS

\* A set of naturals that is not empty has a least element.
LEMMA LeastNat ==
    ASSUME NEW T \in SUBSET Nat, T # {}
    PROVE  \E n \in T : \A k \in T : n <= k
<1>1. PICK n \in T : \A k \in T : ~(<<k, n>> \in OpToRel(<, Nat))
  BY NatLessThanWellFounded, WFMin, Zenon
<1>2. \A k \in T : ~(k < n)
  BY <1>1 DEF OpToRel
<1>3. QED
  BY <1>2

\* Induction over the naturals from m on, for a property given as a set.
LEMMA NatSetInduction ==
    ASSUME NEW m \in Nat, NEW S, m \in S,
           \A n \in Nat : n >= m /\ n \in S => n + 1 \in S
    PROVE  \A n \in Nat : n >= m => n \in S
<1> DEFINE T == {n \in Nat : n >= m /\ n \notin S}
<1>1. SUFFICES ASSUME T # {} PROVE FALSE
  OBVIOUS
<1>2. PICK n \in T : \A k \in T : n <= k
  BY <1>1, LeastNat
<1>3. n - 1 \in Nat /\ n - 1 >= m /\ n - 1 \notin T
  BY <1>2
<1>4. QED
  BY <1>2, <1>3

-----------------------------------------------------------------------------
(* The scan.  Before the proof that it is right, that it is defined: there *)
(* is a function that its recursion describes.                             *)

ScanBody(scores, f, n) ==
    IF n <= 2 THEN FirstTwo(scores) ELSE Scan(scores, f[n - 1], n)

\* f runs the scan up to the first n scores.
Runs(scores, n, f) == \A i \in 0 .. n : f[i] = ScanBody(scores, f, i)

\* Two functions that do are the same so far.
LEMMA RunsAgree ==
    ASSUME NEW scores, NEW n \in Nat, NEW f, NEW g,
           Runs(scores, n, f), Runs(scores, n, g)
    PROVE  f[n] = g[n]
<1> DEFINE S == {i \in Nat : i <= n => f[i] = g[i]}
<1>1. 0 \in S
  BY DEF Runs, ScanBody
<1>2. ASSUME NEW i \in Nat, i \in S
      PROVE  i + 1 \in S
  <2>1. SUFFICES ASSUME i + 1 <= n PROVE f[i + 1] = g[i + 1]
    OBVIOUS
  <2>2. f[i + 1] = ScanBody(scores, f, i + 1) /\ g[i + 1] = ScanBody(scores, g, i + 1)
    BY <2>1 DEF Runs
  <2>3. f[i] = g[i] /\ (i + 1) - 1 = i
    BY <1>2, <2>1
  <2>4. QED
    BY <2>2, <2>3 DEF ScanBody
<1>3. \A i \in Nat : i >= 0 => i \in S
  <2> HIDE DEF S
  <2>1. QED
    BY <1>1, <1>2, NatSetInduction
<1>4. QED
  BY <1>3

\* For any n there is one, by adding a value to one for n - 1.
LEMMA RunsExist ==
    ASSUME NEW scores
    PROVE  \A n \in Nat : \E f : Runs(scores, n, f)
<1> DEFINE S == {n \in Nat : \E f : Runs(scores, n, f)}
<1>1. 0 \in S
  <2>1. Runs(scores, 0, [i \in {0} |-> FirstTwo(scores)])
    BY DEF Runs, ScanBody
  <2>2. QED
    BY <2>1
<1>2. ASSUME NEW n \in Nat, n \in S
      PROVE  n + 1 \in S
  <2>1. PICK f : Runs(scores, n, f)
    BY <1>2
  <2> DEFINE g == [i \in 0 .. n + 1 |-> IF i = n + 1 THEN ScanBody(scores, f, i) ELSE f[i]]
  <2>2. \A i \in 0 .. n + 1 : i > 2 => g[i - 1] = f[i - 1]
    OBVIOUS
  <2>3. \A i \in 0 .. n + 1 : ScanBody(scores, g, i) = ScanBody(scores, f, i)
    BY <2>2 DEF ScanBody
  <2>4. \A i \in 0 .. n + 1 : g[i] = ScanBody(scores, f, i)
    BY <2>1 DEF Runs
  <2>5. Runs(scores, n + 1, g)
    <3> HIDE DEF g
    <3>1. QED
      BY <2>3, <2>4 DEF Runs
  <2>6. QED
    BY <2>5
<1>3. \A n \in Nat : n >= 0 => n \in S
  <2> HIDE DEF S
  <2>1. QED
    BY <1>1, <1>2, NatSetInduction
<1>4. QED
  BY <1>3

\* So the recursion of Confidence has a solution.
LEMMA ScanDefined ==
    ASSUME NEW scores
    PROVE  \E f : f = [n \in Nat |-> ScanBody(scores, f, n)]
<1> DEFINE upto(n) == CHOOSE g : Runs(scores, n, g)
           f == [n \in Nat |-> upto(n)[n]]
<1>1. \A n \in Nat : Runs(scores, n, upto(n))
  BY RunsExist
<1>2. ASSUME NEW n \in Nat
      PROVE  f[n] = ScanBody(scores, f, n)
  <2>1. f[n] = ScanBody(scores, upto(n), n)
    BY <1>1 DEF Runs
  <2>2. CASE n <= 2
    BY <2>1, <2>2 DEF ScanBody
  <2>3. CASE ~(n <= 2)
    <3>1. n - 1 \in Nat /\ f[n - 1] = upto(n - 1)[n - 1]
      BY <2>3
    <3>2. Runs(scores, n - 1, upto(n))
      BY <1>1, <2>3 DEF Runs
    <3>3. upto(n)[n - 1] = upto(n - 1)[n - 1]
      BY <1>1, <3>1, <3>2, RunsAgree
    <3>4. QED
      BY <2>1, <2>3, <3>1, <3>3 DEF ScanBody
  <2>4. QED
    BY <2>2, <2>3
<1>3. f = [n \in Nat |-> ScanBody(scores, f, n)]
  BY <1>2
<1>4. QED
  BY <1>3

\* Confidence is the last value of a function that obeys the recursion.
LEMMA ConfidenceIsScan ==
    ASSUME NEW scores
    PROVE  \E f : /\ f = [n \in Nat |-> ScanBody(scores, f, n)]
                  /\ Confidence(scores) = f[Len(scores)]
<1> DEFINE f == CHOOSE g : g = [n \in Nat |-> ScanBody(scores, g, n)]
<1>1. f = [n \in Nat |-> ScanBody(scores, f, n)]
  BY ScanDefined
<1>2. f = CHOOSE g : g = [n \in Nat |-> IF n <= 2 THEN FirstTwo(scores)
                                                   ELSE Scan(scores, g[n - 1], n)]
  BY Zenon DEF ScanBody
<1>3. Confidence(scores) = f[Len(scores)]
  BY <1>2, Zenon DEF Confidence
<1>4. QED
  BY <1>1, <1>3

\* The scan starts with the two best of two scores.
LEMMA ScanStart ==
    ASSUME NEW scores \in Seq(Int), 2 <= Len(scores)
    PROVE  TwoBestOf(scores, 2, FirstTwo(scores))
<1>1. scores[1] \in Int /\ scores[2] \in Int /\ 1 .. 2 = {1, 2}
  OBVIOUS
<1>2. QED
  BY <1>1 DEF TwoBestOf, FirstTwo

\* One step of the scan of mnist_get_confidence: with the two best of the
\* first n scores it looks at the next and has the two best of n + 1, for any
\* number of scores.
THEOREM ScanStep ==
    ASSUME NEW scores \in Seq(Int), NEW n \in Nat, n + 1 <= Len(scores), NEW c,
           TwoBestOf(scores, n, c)
    PROVE  TwoBestOf(scores, n + 1, Scan(scores, c, n + 1))
<1>1. /\ c.top1 \in 1 .. n /\ c.top2 \in 1 .. n /\ c.top1 # c.top2
      /\ \A d \in 1 .. n + 1 : scores[d] \in Int
  BY DEF TwoBestOf
<1>2. /\ \A d \in 1 .. n : scores[d] <= scores[c.top1]
      /\ \A d \in 1 .. c.top1 - 1 : scores[d] < scores[c.top1]
      /\ \A d \in 1 .. n : d # c.top1 => scores[d] <= scores[c.top2]
      /\ c \in [top1 : 1 .. n, top2 : 1 .. n]
  BY DEF TwoBestOf
<1>3. \A d \in 1 .. n + 1 : d \in 1 .. n \/ d = n + 1
  OBVIOUS
<1> DEFINE new == Scan(scores, c, n + 1)
<1>4. CASE scores[n + 1] > scores[c.top1]
  <2>1. new = [top1 |-> n + 1, top2 |-> c.top1]
    BY <1>1, <1>4 DEF Scan
  <2>2. /\ new.top1 = n + 1 /\ new.top2 = c.top1
        /\ new \in [top1 : 1 .. n + 1, top2 : 1 .. n + 1] /\ new.top1 # new.top2
    BY <1>1, <2>1
  <2>3. \A d \in 1 .. n : scores[d] < scores[n + 1]
    BY <1>1, <1>2, <1>4
  <2> HIDE DEF new
  <2>4. \A d \in 1 .. n + 1 : scores[d] <= scores[new.top1]
    BY <1>1, <1>3, <2>2, <2>3
  <2>5. \A d \in 1 .. new.top1 - 1 : scores[d] < scores[new.top1]
    BY <2>2, <2>3
  <2>6. \A d \in 1 .. n + 1 : d # new.top1 => scores[d] <= scores[new.top2]
    BY <1>2, <1>3, <2>2
  <2>7. QED
    BY <2>2, <2>4, <2>5, <2>6 DEF TwoBestOf, new
<1>5. CASE scores[n + 1] \in scores[c.top2] + 1 .. scores[c.top1]
  <2>1. new = [c EXCEPT !.top2 = n + 1]
    BY <1>1, <1>5 DEF Scan
  <2>2. /\ new.top1 = c.top1 /\ new.top2 = n + 1
        /\ new \in [top1 : 1 .. n + 1, top2 : 1 .. n + 1] /\ new.top1 # new.top2
    BY <1>1, <1>2, <2>1
  <2>3. \A d \in 1 .. n : d # c.top1 => scores[d] <= scores[n + 1]
    BY <1>1, <1>2, <1>5
  <2> HIDE DEF new
  <2>4. \A d \in 1 .. n + 1 : scores[d] <= scores[new.top1]
    BY <1>1, <1>2, <1>3, <1>5, <2>2
  <2>5. \A d \in 1 .. new.top1 - 1 : scores[d] < scores[new.top1]
    BY <1>2, <2>2
  <2>6. \A d \in 1 .. n + 1 : d # new.top1 => scores[d] <= scores[new.top2]
    BY <1>1, <1>3, <2>2, <2>3
  <2>7. QED
    BY <2>2, <2>4, <2>5, <2>6 DEF TwoBestOf, new
<1>6. CASE /\ ~(scores[n + 1] > scores[c.top1])
           /\ scores[n + 1] \notin scores[c.top2] + 1 .. scores[c.top1]
  <2>1. new = c
    BY <1>6 DEF Scan
  <2>2. scores[n + 1] <= scores[c.top2] /\ scores[c.top2] <= scores[c.top1]
    BY <1>1, <1>2, <1>6
  <2>3. new \in [top1 : 1 .. n + 1, top2 : 1 .. n + 1]
    BY <1>1, <1>2, <2>1
  <2>4. \A d \in 1 .. n + 1 : scores[d] <= scores[c.top1] /\ (d # c.top1 => scores[d] <= scores[c.top2])
    BY <1>1, <1>2, <1>3, <2>2
  <2> HIDE DEF new
  <2>5. QED
    BY <1>1, <1>2, <2>1, <2>3, <2>4 DEF TwoBestOf, new
<1>7. QED
  BY <1>4, <1>5, <1>6

\* The scan of mnist_get_confidence is right about every list of two scores or
\* more: it finds the first of the largest, and the largest of the others.
THEOREM ScanFinds ==
    ASSUME NEW scores \in Seq(Int), Len(scores) > 1
    PROVE  TwoBest(scores)
<1>1. PICK f : /\ f = [n \in Nat |-> ScanBody(scores, f, n)]
               /\ Confidence(scores) = f[Len(scores)]
  BY ConfidenceIsScan
<1>2. \A n \in Nat : f[n] = ScanBody(scores, f, n)
  BY <1>1
<1> DEFINE S == {n \in Nat : n <= Len(scores) => TwoBestOf(scores, n, f[n])}
<1>3. 2 \in S
  <2>1. f[2] = FirstTwo(scores)
    BY <1>2 DEF ScanBody
  <2>2. QED
    BY <2>1, ScanStart
<1>4. ASSUME NEW n \in Nat, n >= 2, n \in S
      PROVE  n + 1 \in S
  <2>1. SUFFICES ASSUME n + 1 <= Len(scores)
                 PROVE  TwoBestOf(scores, n + 1, f[n + 1])
    OBVIOUS
  <2>2. TwoBestOf(scores, n, f[n])
    BY <1>4, <2>1
  <2>3. f[n + 1] = Scan(scores, f[n], n + 1)
    <3>1. n + 1 \in Nat /\ ~(n + 1 <= 2) /\ (n + 1) - 1 = n
      BY <1>4
    <3>2. QED
      BY <1>2, <3>1 DEF ScanBody
  <2>4. QED
    BY <2>1, <2>2, <2>3, ScanStep
<1>5. \A n \in Nat : n >= 2 => n \in S
  <2> HIDE DEF S
  <2>1. QED
    BY <1>3, <1>4, NatSetInduction
<1>6. QED
  BY <1>1, <1>5 DEF TwoBest

\* The margin is at least 500 exactly if one class leads every other by that.
LEMMA MarginMeansWinner ==
    ASSUME NEW scores \in Seq(Int), Len(scores) > 1
    PROVE  /\ Margin(scores) \in Int
           /\ Margin(scores) >= 500 <=> ClearWinner(scores)
<1> DEFINE c == Confidence(scores)
<1>1. /\ c.top1 \in DOMAIN scores /\ c.top2 \in DOMAIN scores /\ c.top1 # c.top2
      /\ \A d \in DOMAIN scores : scores[d] \in Int /\ scores[d] <= scores[c.top1]
      /\ \A d \in DOMAIN scores \ {c.top1} : scores[d] <= scores[c.top2]
  <2>1. DOMAIN scores = 1 .. Len(scores) /\ \A d \in DOMAIN scores : scores[d] \in Int
    OBVIOUS
  <2>2. TwoBestOf(scores, Len(scores), c)
    BY ScanFinds DEF TwoBest
  <2> HIDE DEF c
  <2>3. QED
    BY <2>1, <2>2 DEF TwoBestOf
<1>2. Margin(scores) = scores[c.top1] - scores[c.top2]
  BY DEF Margin
<1> HIDE DEF c
<1>3. ASSUME Margin(scores) >= 500
      PROVE  ClearWinner(scores)
  <2>1. \A e \in DOMAIN scores \ {c.top1} : scores[c.top1] - scores[e] >= 500
    BY <1>1, <1>2, <1>3
  <2>2. QED
    BY <1>1, <2>1 DEF ClearWinner
<1>4. ASSUME ClearWinner(scores)
      PROVE  Margin(scores) >= 500
  <2>1. PICK d \in DOMAIN scores : \A e \in DOMAIN scores \ {d} : scores[d] - scores[e] >= 500
    BY <1>4 DEF ClearWinner
  <2>2. d = c.top1
    <3>1. SUFFICES ASSUME d # c.top1 PROVE FALSE
      OBVIOUS
    <3>2. scores[d] - scores[c.top1] >= 500
      BY <1>1, <2>1, <3>1
    <3>3. QED
      BY <1>1, <3>2
  <2>3. QED
    BY <1>1, <1>2, <2>1, <2>2
<1>5. QED
  BY <1>1, <1>2, <1>3, <1>4

-----------------------------------------------------------------------------
(* The density of the images.                                              *)

Inked(s) == {i \in Pixels : Image(s)[i] > 20}

LEMMA CountUpTo ==
    ASSUME NEW n \in Nat
    PROVE  IsFiniteSet(0 .. n) /\ Cardinality(0 .. n) = n + 1
BY FS_Interval

LEMMA CountPixels == IsFiniteSet(Pixels) /\ Cardinality(Pixels) = 784
<1>1. PICK n \in Nat : n = 783
  OBVIOUS
<1>2. IsFiniteSet(0 .. n) /\ Cardinality(0 .. n) = n + 1
  BY CountUpTo
<1>3. n + 1 = 784
  BY <1>1
<1>4. 0 .. n = Pixels
  BY <1>1, Zenon DEF Pixels
<1>5. QED
  BY <1>2, <1>3, <1>4, Zenon

\* Every seventh pixel of noise is inked.
LEMMA NoiseIsDense == IsFiniteSet(Inked("noise")) /\ Cardinality(Inked("noise")) >= 112
<1>1. IsFiniteSet(Pixels)
  BY CountPixels
<1>2. IsFiniteSet(Inked("noise"))
  BY <1>1, FS_Subset DEF Inked
<1> DEFINE f == [k \in 0 .. 111 |-> 7 * k]
<1>3. \A k \in 0 .. 111 : 7 * k \in Pixels /\ (7 * k) % 7 = 0
  BY DEF Pixels
<1>4. \A k \in 0 .. 111 : Image("noise")[7 * k] = 100
  BY <1>3 DEF Image
<1>5. f \in Injection(0 .. 111, Inked("noise"))
  BY <1>3, <1>4 DEF Inked, Injection, IsInjective
<1>6. Cardinality(0 .. 111) = 112
  <2>1. 111 \in Nat /\ 111 + 1 = 112
    OBVIOUS
  <2>2. QED
    BY <2>1, CountUpTo
<1>7. QED
  BY <1>2, <1>5, <1>6, FS_Injection, FS_CardinalityType

\* The strokes of a seven, and a place of its own for every pixel of them.
Stroke(x, y) ==
    \/ y = 7 /\ x \in 6 .. 21
    \/ y \in 8 .. 21 /\ x + y \in {29, 30}
Slot(x, y) == IF y = 7 THEN x - 6 ELSE 2 * y + (x + y - 29)

LEMMA SlotsDiffer ==
    ASSUME NEW x \in Int, NEW y \in Int, NEW v \in Int, NEW w \in Int,
           Stroke(x, y), Stroke(v, w), Slot(x, y) = Slot(v, w)
    PROVE  Slot(x, y) \in 0 .. 43 /\ x = v /\ y = w
BY DEF Stroke, Slot

\* A seven, clean or weak, inks at most one pixel of its bar and two of each
\* row below it.
LEMMA SevenIsSparse ==
    ASSUME NEW s \in Sample \ {"noise"}
    PROVE  IsFiniteSet(Inked(s)) /\ Cardinality(Inked(s)) <= 44
<1>1. IsFiniteSet(Pixels)
  BY CountPixels
<1>2. IsFiniteSet(Inked(s))
  BY <1>1, FS_Subset DEF Inked
<1> DEFINE f == [i \in Inked(s) |-> Slot(i % 28, i \div 28)]
<1>3. ASSUME NEW i \in Inked(s)
      PROVE  i \in 0 .. 783 /\ Stroke(i % 28, i \div 28)
  BY DEF Inked, Image, Pixels, Stroke
<1>4. \A i \in 0 .. 783 : /\ i % 28 \in Int /\ i \div 28 \in Int
                          /\ i = 28 * (i \div 28) + (i % 28)
  OBVIOUS
<1>5. f \in Injection(Inked(s), 0 .. 43)
  <2>1. \A i \in Inked(s) : f[i] \in 0 .. 43
    BY <1>3, <1>4, SlotsDiffer
  <2>2. ASSUME NEW i \in Inked(s), NEW j \in Inked(s), f[i] = f[j]
        PROVE  i = j
    <3>1. Slot(i % 28, i \div 28) = Slot(j % 28, j \div 28)
      BY <2>2
    <3>2. /\ i % 28 \in Int /\ i \div 28 \in Int /\ j % 28 \in Int /\ j \div 28 \in Int
          /\ Stroke(i % 28, i \div 28) /\ Stroke(j % 28, j \div 28)
      BY <1>3, <1>4
    <3> HIDE DEF f
    <3>3. i % 28 = j % 28 /\ i \div 28 = j \div 28
      BY <3>1, <3>2, SlotsDiffer
    <3>4. QED
      BY <1>3, <1>4, <3>3
  <2>3. QED
    BY <2>1, <2>2 DEF Injection, IsInjective
<1>6. IsFiniteSet(0 .. 43) /\ Cardinality(0 .. 43) = 44
  <2>1. 43 \in Nat /\ 43 + 1 = 44
    OBVIOUS
  <2>2. QED
    BY <2>1, CountUpTo
<1>7. QED
  BY <1>2, <1>5, <1>6, FS_Injection

\* Of the inputs, noise is the one that the optimizer takes for one.
THEOREM DensitySeparates ==
    ASSUME NEW s \in Sample
    PROVE  Density[s] \in Int /\ (Density[s] > 100 <=> s = "noise")
<1>1. Cardinality(Pixels) = 784
  BY CountPixels
<1>2. Density[s] = (Cardinality(Inked(s)) * 1000) \div 784
  BY <1>1 DEF Density, Inked
<1>3. CASE s = "noise"
  <2>1. Cardinality(Inked(s)) \in Nat /\ Cardinality(Inked(s)) >= 112
    BY <1>3, NoiseIsDense, FS_CardinalityType
  <2>2. QED
    BY <1>2, <1>3, <2>1
<1>4. CASE s # "noise"
  <2>1. Cardinality(Inked(s)) \in Nat /\ Cardinality(Inked(s)) <= 44
    BY <1>4, SevenIsSparse, FS_CardinalityType
  <2>2. QED
    BY <1>2, <1>4, <2>1
<1>5. QED
  BY <1>3, <1>4
=============================================================================
