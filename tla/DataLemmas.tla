----------------------------- MODULE DataLemmas -----------------------------
(***************************************************************************)
(* The ground under proofs about numbers, folds and sequences.  Sets of    *)
(* naturals have a least element, and a greatest one if they are bounded;  *)
(* what holds of 0 and of i when it holds of i - 1 holds up to any length; *)
(* so a fold has a value, which is made of the values of its steps.        *)
(***************************************************************************)
EXTENDS SeqOps, WellFoundedInduction, TLAPS

-----------------------------------------------------------------------------
(* Least and greatest. *)

\* A bounded set of naturals that is not empty has a greatest element.
LEMMA MaxOfNats ==
  ASSUME NEW S \in SUBSET Nat, S # {}, NEW b \in Nat, \A s \in S : s <= b
  PROVE  Max(S) \in S /\ \A s \in S : s <= Max(S)
<1> DEFINE R == {p \in Nat \X Nat : p[1] < p[2]}
           T == {x \in Nat : b - x \in S}
<1>1. IsWellFoundedOn(R, Nat)
  BY NatLessThanWellFounded DEF OpToRel
<1>2. T \subseteq Nat /\ T # {}
  <2>1. PICK s \in S : TRUE
    OBVIOUS
  <2>2. b - s \in T
    BY <2>1
  <2>3. QED
    BY <2>2
<1>3. PICK x \in T : \A y \in T : ~(<<y, x>> \in R)
  BY <1>1, <1>2, WFMin
<1>4. \A s \in S : s <= b - x
  <2>1. SUFFICES ASSUME NEW s \in S PROVE s <= b - x
    OBVIOUS
  <2>2. b - s \in T
    BY <2>1
  <2>3. <<b - s, x>> \notin R
    BY <2>2, <1>3
  <2>4. QED
    BY <2>2, <2>3
<1>5. b - x \in S
  BY <1>3
<1>6. QED
  BY <1>4, <1>5 DEF Max

\* A set of naturals that is not empty has a least element.
LEMMA MinOfNats ==
  ASSUME NEW S \in SUBSET Nat, S # {}
  PROVE  Min(S) \in S /\ \A s \in S : Min(S) <= s
<1> DEFINE R == {p \in Nat \X Nat : p[1] < p[2]}
<1>1. IsWellFoundedOn(R, Nat)
  BY NatLessThanWellFounded DEF OpToRel
<1>2. PICK x \in S : \A y \in S : ~(<<y, x>> \in R)
  BY <1>1, WFMin
<1>3. \A s \in S : x <= s
  <2>1. SUFFICES ASSUME NEW s \in S PROVE x <= s
    OBVIOUS
  <2>2. <<s, x>> \notin R /\ s \in Nat /\ x \in Nat
    BY <1>2
  <2>3. QED
    BY <2>2
<1>4. QED
  BY <1>3 DEF Min

\* Induction over the prefixes of something of length L.
LEMMA PrefixInduction ==
  ASSUME NEW L \in Nat, NEW S, 0 \in S, \A i \in 1 .. L : i - 1 \in S => i \in S
  PROVE  \A i \in 0 .. L : i \in S
<1> DEFINE T == {i \in 0 .. L : i \notin S}
<1>1. SUFFICES ASSUME T # {} PROVE FALSE
  OBVIOUS
<1>2. T \in SUBSET Nat
  OBVIOUS
<1>3. Min(T) \in T /\ \A i \in T : Min(T) <= i
  BY <1>1, <1>2, MinOfNats
<1> HIDE DEF T
<1>4. PICK m \in T : \A i \in T : m <= i
  BY <1>3
<1>5. m \in 1 .. L /\ m - 1 \in S
  BY <1>4 DEF T
<1>6. QED
  BY <1>4, <1>5 DEF T

\* Max of some of the numbers 1 .. L.
LEMMA MaxOfPart ==
  ASSUME NEW L \in Nat, NEW t \in SUBSET (1 .. L), t # {}
  PROVE  Max(t) \in t /\ Max(t) \in 1 .. L /\ \A i \in t : i <= Max(t)
<1>1. t \in SUBSET Nat /\ \A i \in t : i <= L
  OBVIOUS
<1>2. QED
  BY <1>1, MaxOfNats

-----------------------------------------------------------------------------
(* Folds. *)

\* A fold of the steps 1 .. L over values in X, and the recursion behind it.
Steps(X, base, step, L) == L \in Nat /\ base \in X /\ step \in [1 .. L -> [X -> X]]

IsFold(F, X, base, step, L) ==
  \A t \in SUBSET (1 .. L) :
    /\ t = {} => F[t] = base
    /\ t # {} /\ F[t \ {Max(t)}] \in X => F[t] = step[Max(t)][F[t \ {Max(t)}]]

\* The recursion behind a fold has a solution.
LEMMA FoldExists ==
  ASSUME NEW X, NEW base, NEW step, NEW L, Steps(X, base, step, L)
  PROVE  \E g \in [SUBSET (1 .. L) -> X] : IsFold(g, X, base, step, L)
<1> USE DEF Steps
<1> DEFINE Solves(g, k) ==
             \A t \in SUBSET (1 .. k) :
               g[t] = IF t = {} THEN base ELSE step[Max(t)][g[t \ {Max(t)}]]
           K == {k \in 0 .. L : \E g \in [SUBSET (1 .. k) -> X] : Solves(g, k)}
<1>1. 0 \in K
  <2> DEFINE g == [t \in SUBSET (1 .. 0) |-> base]
  <2>1. g \in [SUBSET (1 .. 0) -> X]
    OBVIOUS
  <2>2. \A t \in SUBSET (1 .. 0) : t = {} /\ g[t] = base
    OBVIOUS
  <2> HIDE DEF g
  <2>3. Solves(g, 0)
    BY <2>2
  <2>4. 0 \in 0 .. L
    OBVIOUS
  <2> HIDE DEF Solves
  <2>5. QED
    BY <2>1, <2>3, <2>4
<1>2. ASSUME NEW k \in 1 .. L, k - 1 \in K PROVE k \in K
  <2>1. PICK g \in [SUBSET (1 .. k - 1) -> X] : Solves(g, k - 1)
    <3> HIDE DEF Solves
    <3>1. QED
      BY <1>2
  <2> DEFINE h == [t \in SUBSET (1 .. k) |->
                     IF k \in t THEN step[k][g[t \ {k}]] ELSE g[t]]
  <2>2. \A t \in SUBSET (1 .. k) : t \ {k} \in SUBSET (1 .. k - 1)
    OBVIOUS
  <2>3. \A t \in SUBSET (1 .. k) : k \notin t => t \in SUBSET (1 .. k - 1)
    OBVIOUS
  <2>4. h \in [SUBSET (1 .. k) -> X]
    <3>1. SUFFICES ASSUME NEW t \in SUBSET (1 .. k)
                   PROVE  (IF k \in t THEN step[k][g[t \ {k}]] ELSE g[t]) \in X
      OBVIOUS
    <3>2. CASE k \in t
      <4>1. g[t \ {k}] \in X
        BY <2>2
      <4>2. step[k] \in [X -> X]
        BY <4>1
      <4>3. QED
        BY <4>1, <4>2, <3>2
    <3>3. QED
      BY <3>2, <2>3
  <2>5. \A t \in SUBSET (1 .. k) :
          h[t] = IF k \in t THEN step[k][g[t \ {k}]] ELSE g[t]
    OBVIOUS
  <2> HIDE DEF h
  <2>6. ASSUME NEW t \in SUBSET (1 .. k)
        PROVE  h[t] = IF t = {} THEN base ELSE step[Max(t)][h[t \ {Max(t)}]]
    <3>1. CASE k \in t
      <4>1. Max(t) = k
        BY <3>1, MaxOfPart
      <4>2. h[t \ {k}] = g[t \ {k}]
        BY <2>5
      <4>3. QED
        BY <2>5, <3>1, <4>1, <4>2
    <3>2. CASE k \notin t
      <4>1. t \in SUBSET (1 .. k - 1) /\ h[t] = g[t]
        BY <2>5, <3>2, <2>3
      <4>2. t \ {Max(t)} \in SUBSET (1 .. k) /\ k \notin t \ {Max(t)}
        BY <3>2
      <4>3. h[t \ {Max(t)}] = g[t \ {Max(t)}]
        BY <2>5, <4>2
      <4>4. QED
        BY <2>1, <4>1, <4>3
    <3>3. QED
      BY <3>1, <3>2
  <2>7. Solves(h, k)
    BY <2>6
  <2> HIDE DEF Solves
  <2>8. QED
    BY <2>4, <2>7
<1>3. L \in K
  <2>1. L \in Nat /\ \A k \in 1 .. L : k - 1 \in K => k \in K
    <3> HIDE DEF K
    <3>1. QED
      BY <1>2
  <2> HIDE DEF K, Steps
  <2>2. \A k \in 0 .. L : k \in K
    BY <1>1, <2>1, PrefixInduction
  <2>3. QED
    BY <2>1, <2>2
<1>4. QED
  <2>1. PICK g \in [SUBSET (1 .. L) -> X] : Solves(g, L)
    <3> HIDE DEF Solves
    <3>1. QED
      BY <1>3
  <2>2. IsFold(g, X, base, step, L)
    BY <2>1 DEF IsFold
  <2>3. QED
    BY <2>2

\* What solves it goes through 1 .. L from left to right.
LEMMA FoldSteps ==
  ASSUME NEW X, NEW base, NEW step, NEW L, Steps(X, base, step, L),
         NEW F, IsFold(F, X, base, step, L)
  PROVE  /\ F[{}] = base /\ \A i \in 0 .. L : F[1 .. i] \in X
         /\ \A i \in 1 .. L : F[1 .. i] = step[i][F[1 .. i - 1]]
<1> USE DEF Steps
<1>0. F[{}] = base
  BY DEF IsFold
<1> DEFINE S == {i \in 0 .. L : F[1 .. i] \in X}
<1>1. 0 \in S
  <2>1. 1 .. 0 = {}
    OBVIOUS
  <2>2. QED
    BY <1>0, <2>1
<1>2. ASSUME NEW i \in 1 .. L, F[1 .. i - 1] \in X
      PROVE  F[1 .. i] = step[i][F[1 .. i - 1]] /\ F[1 .. i] \in X
  <2>1. 1 .. i \in SUBSET (1 .. L) /\ i \in 1 .. i
    OBVIOUS
  <2>2. Max(1 .. i) = i
    <3>1. Max(1 .. i) \in 1 .. i /\ i <= Max(1 .. i)
      BY <2>1, MaxOfPart
    <3>2. QED
      BY <3>1
  <2>3. (1 .. i) \ {i} = 1 .. i - 1
    OBVIOUS
  <2>4. F[1 .. i] = step[i][F[1 .. i - 1]]
    BY <1>2, <2>1, <2>2, <2>3 DEF IsFold
  <2>5. step[i] \in [X -> X]
    BY <1>2
  <2>6. QED
    BY <1>2, <2>4, <2>5
<1>3. ASSUME NEW i \in 1 .. L, i - 1 \in S PROVE i \in S
  <2>1. F[1 .. i - 1] \in X
    BY <1>3
  <2>2. F[1 .. i] \in X
    BY <1>2, <2>1
  <2>3. QED
    BY <2>2
<1>4. \A i \in 0 .. L : i \in S
  <2> HIDE DEF S
  <2>1. QED
    BY <1>1, <1>3, PrefixInduction
<1>5. QED
  BY <1>0, <1>2, <1>4

-----------------------------------------------------------------------------
(* Sums. *)

\* SumSeq adds the elements one by one.
LEMMA SumSteps ==
  ASSUME NEW s \in Seq(Int)
  PROVE  \E g \in [0 .. Len(s) -> Int] :
           /\ g[0] = 0 /\ g[Len(s)] = SumSeq(s)
           /\ \A i \in 1 .. Len(s) : g[i] = g[i - 1] + s[i]
<1> DEFINE Sums(g) == g = [t \in SUBSET DOMAIN s |->
                             IF t = {} THEN 0 ELSE g[t \ {Max(t)}] + s[Max(t)]]
           F == CHOOSE g : Sums(g)
<1>1. PICK L \in Nat : L = Len(s)
  OBVIOUS
<1>2. PICK X, base : X = Int /\ base = 0
  OBVIOUS
<1>3. PICK step : step = [i \in 1 .. L |-> [x \in X |-> x + s[i]]]
  OBVIOUS
<1>4. Steps(X, base, step, L) /\ DOMAIN s = 1 .. L
  BY <1>1, <1>2, <1>3 DEF Steps
<1>5. \A x \in X, i \in 1 .. L : step[i][x] = x + s[i]
  BY <1>3
<1>6. \E g : Sums(g)
  <2>1. PICK g \in [SUBSET (1 .. L) -> X] : IsFold(g, X, base, step, L)
    BY <1>4, FoldExists
  <2>2. \A t \in SUBSET (1 .. L) : g[t] = IF t = {} THEN base ELSE g[t \ {Max(t)}] + s[Max(t)]
    BY <1>5, <2>1, MaxOfPart DEF IsFold
  <2>3. Sums(g)
    BY <1>2, <1>4, <2>2
  <2> HIDE DEF Sums
  <2>4. QED
    BY <2>3
<1>7. Sums(F)
  <2> HIDE DEF Sums
  <2>1. QED
    BY <1>6
<1>8. SumSeq(s) = F[1 .. L]
  BY <1>4 DEF SumSeq, FoldLeft, MapThenFoldSet
<1> HIDE DEF F
<1>9. IsFold(F, X, base, step, L)
  <2>1. \A t \in SUBSET (1 .. L) : F[t] = IF t = {} THEN base ELSE F[t \ {Max(t)}] + s[Max(t)]
    BY <1>2, <1>4, <1>7
  <2>2. QED
    BY <1>5, <2>1, MaxOfPart DEF IsFold
<1>10. /\ F[{}] = base /\ \A i \in 0 .. L : F[1 .. i] \in X
       /\ \A i \in 1 .. L : F[1 .. i] = step[i][F[1 .. i - 1]]
  BY <1>4, <1>9, FoldSteps
<1> DEFINE g == [i \in 0 .. L |-> F[1 .. i]]
<1>11. g \in [0 .. L -> Int] /\ g[0] = 0 /\ g[L] = SumSeq(s)
  BY <1>2, <1>8, <1>9, <1>10
<1>12. ASSUME NEW i \in 1 .. L PROVE g[i] = g[i - 1] + s[i]
  <2>1. g[i] = F[1 .. i] /\ g[i - 1] = F[1 .. i - 1] /\ F[1 .. i - 1] \in X
    BY <1>10
  <2>2. QED
    BY <1>5, <1>10, <2>1
<1>13. QED
  BY <1>1, <1>11, <1>12

LEMMA SumType ==
  ASSUME NEW s \in Seq(Int)
  PROVE  SumSeq(s) \in Int
BY SumSteps

LEMMA SumEmpty == SumSeq(<<>>) = 0
<1>1. <<>> \in Seq(Int) /\ Len(<<>>) = 0
  OBVIOUS
<1>2. QED
  BY <1>1, SumSteps

\* Sums are told by their partial sums.
LEMMA SumOf ==
  ASSUME NEW s \in Seq(Int), NEW h, h[0] = 0,
         \A i \in 1 .. Len(s) : h[i] = h[i - 1] + s[i]
  PROVE  SumSeq(s) = h[Len(s)]
<1>1. PICK g \in [0 .. Len(s) -> Int] :
        /\ g[0] = 0 /\ g[Len(s)] = SumSeq(s)
        /\ \A i \in 1 .. Len(s) : g[i] = g[i - 1] + s[i]
  BY SumSteps
<1>2. PICK L \in Nat : L = Len(s)
  OBVIOUS
<1> DEFINE S == {i \in 0 .. L : g[i] = h[i]}
<1>3. 0 \in S
  BY <1>1, <1>2
<1>4. \A i \in 1 .. L : i - 1 \in S => i \in S
  BY <1>1, <1>2
<1>5. \A i \in 0 .. L : i \in S
  <2> HIDE DEF S
  <2>1. QED
    BY <1>3, <1>4, PrefixInduction
<1>6. QED
  BY <1>1, <1>2, <1>5

LEMMA SumAppend ==
  ASSUME NEW s \in Seq(Int), NEW x \in Int
  PROVE  SumSeq(Append(s, x)) = SumSeq(s) + x
<1>1. PICK g \in [0 .. Len(s) -> Int] :
        /\ g[0] = 0 /\ g[Len(s)] = SumSeq(s)
        /\ \A i \in 1 .. Len(s) : g[i] = g[i - 1] + s[i]
  BY SumSteps
<1>2. PICK L \in Nat : L = Len(s)
  OBVIOUS
<1>3. PICK t : t = Append(s, x)
  OBVIOUS
<1>4. /\ t \in Seq(Int) /\ Len(t) = L + 1 /\ t[L + 1] = x
      /\ \A i \in 1 .. L : t[i] = s[i]
  BY <1>2, <1>3
<1>5. PICK h : h = [i \in 0 .. L + 1 |-> IF i <= L THEN g[i] ELSE g[L] + x]
  OBVIOUS
<1>6. h[0] = 0 /\ h[L + 1] = g[L] + x /\ \A i \in 1 .. L : h[i] = g[i] /\ h[i - 1] = g[i - 1]
  BY <1>1, <1>2, <1>5
<1>7. ASSUME NEW i \in 1 .. L + 1 PROVE h[i] = h[i - 1] + t[i]
  <2>1. CASE i \in 1 .. L
    BY <1>1, <1>2, <1>4, <1>6, <2>1
  <2>2. CASE i = L + 1
    <3>1. h[L] = g[L] /\ i - 1 = L
      BY <1>2, <1>5, <2>2
    <3>2. QED
      BY <1>4, <1>6, <2>2, <3>1
  <2>3. QED
    BY <2>1, <2>2
<1>8. SumSeq(t) = h[L + 1]
  <2>1. \A i \in 1 .. Len(t) : h[i] = h[i - 1] + t[i]
    BY <1>4, <1>7
  <2>2. SumSeq(t) = h[Len(t)]
    BY <1>4, <1>6, <2>1, SumOf, Zenon
  <2>3. QED
    BY <1>4, <2>2
<1>9. QED
  BY <1>1, <1>2, <1>3, <1>6, <1>8

\* The sum of a concatenation.
LEMMA SumConcat ==
  ASSUME NEW s \in Seq(Int), NEW t \in Seq(Int)
  PROVE  SumSeq(s \o t) = SumSeq(s) + SumSeq(t)
<1>1. PICK g \in [0 .. Len(s) -> Int] :
        /\ g[0] = 0 /\ g[Len(s)] = SumSeq(s)
        /\ \A i \in 1 .. Len(s) : g[i] = g[i - 1] + s[i]
  BY SumSteps
<1>2. PICK h \in [0 .. Len(t) -> Int] :
        /\ h[0] = 0 /\ h[Len(t)] = SumSeq(t)
        /\ \A i \in 1 .. Len(t) : h[i] = h[i - 1] + t[i]
  BY SumSteps
<1>3. PICK L \in Nat, M \in Nat : L = Len(s) /\ M = Len(t)
  OBVIOUS
<1>4. PICK u : u = s \o t
  OBVIOUS
<1>5. /\ u \in Seq(Int) /\ Len(u) = L + M
      /\ \A i \in 1 .. L : u[i] = s[i]
      /\ \A i \in L + 1 .. L + M : u[i] = t[i - L]
  BY <1>3, <1>4
<1>6. PICK f : f = [i \in 0 .. L + M |-> IF i <= L THEN g[i] ELSE g[L] + h[i - L]]
  OBVIOUS
<1>7. f[0] = 0
  BY <1>1, <1>3, <1>6
<1>8. ASSUME NEW i \in 1 .. L + M PROVE f[i] = f[i - 1] + u[i]
  <2>1. CASE i <= L
    <3>1. f[i] = g[i] /\ f[i - 1] = g[i - 1]
      BY <1>6, <2>1
    <3>2. QED
      BY <1>1, <1>3, <1>5, <2>1, <3>1
  <2>2. CASE i > L
    <3>1. PICK j \in 1 .. M : j = i - L
      BY <2>2
    <3>2. h[j] = h[j - 1] + t[j] /\ u[i] = t[j]
      <4>1. i \in L + 1 .. L + M
        BY <2>2
      <4>2. QED
        BY <1>2, <1>3, <1>5, <3>1, <4>1
    <3>3. f[i] = g[L] + h[j]
      BY <1>6, <2>2, <3>1
    <3>4. f[i - 1] = g[L] + h[j - 1]
      <4>1. CASE j = 1
        <5>1. i - 1 = L /\ i - 1 \in 0 .. L + M
          BY <3>1, <4>1
        <5>2. f[i - 1] = g[L]
          BY <1>6, <5>1
        <5>3. h[j - 1] = 0
          BY <1>2, <4>1
        <5>4. g[L] \in Int
          <6>1. L \in 0 .. Len(s)
            BY <1>3
          <6>2. QED
            BY <6>1
        <5>5. QED
          BY <5>2, <5>3, <5>4
      <4>2. CASE j # 1
        <5>1. i - 1 \in 0 .. L + M /\ ~(i - 1 <= L) /\ i - 1 - L = j - 1
          BY <3>1, <4>2
        <5>2. QED
          BY <1>6, <5>1
      <4>3. QED
        BY <4>1, <4>2
    <3>5. g[L] \in Int /\ h[j - 1] \in Int /\ t[j] \in Int
      <4>1. L \in 0 .. Len(s) /\ j - 1 \in 0 .. Len(t) /\ j \in 1 .. Len(t)
        BY <1>3, <3>1
      <4>2. t[j] \in Int
        BY <4>1
      <4>3. g[L] \in Int /\ h[j - 1] \in Int
        BY <4>1
      <4>4. QED
        BY <4>2, <4>3
    <3>6. QED
      BY <3>2, <3>3, <3>4, <3>5
  <2>3. QED
    BY <2>1, <2>2
<1>9. SumSeq(u) = f[L + M]
  BY <1>5, <1>7, <1>8, SumOf
<1>10. f[L + M] = g[L] + h[M]
  <2>1. CASE M = 0
    <3>1. f[L + M] = g[L] /\ h[M] = 0
      BY <1>2, <1>3, <1>6, <2>1
    <3>2. L \in 0 .. Len(s)
      BY <1>3
    <3>3. g[L] \in Int
      BY <1>1, <3>2
    <3>4. QED
      BY <3>1, <3>3
  <2>2. CASE M # 0
    BY <1>3, <1>6, <2>2
  <2>3. QED
    BY <2>1, <2>2
<1>11. QED
  BY <1>1, <1>2, <1>3, <1>4, <1>9, <1>10

\* Sums add up place by place.
LEMMA SumAdd ==
  ASSUME NEW s \in Seq(Int), NEW t \in Seq(Int), NEW u \in Seq(Int),
         Len(t) = Len(s), Len(u) = Len(s), \A i \in 1 .. Len(s) : u[i] = s[i] + t[i]
  PROVE  SumSeq(u) = SumSeq(s) + SumSeq(t)
<1>1. PICK g \in [0 .. Len(s) -> Int] :
        /\ g[0] = 0 /\ g[Len(s)] = SumSeq(s)
        /\ \A i \in 1 .. Len(s) : g[i] = g[i - 1] + s[i]
  BY SumSteps
<1>2. PICK h \in [0 .. Len(t) -> Int] :
        /\ h[0] = 0 /\ h[Len(t)] = SumSeq(t)
        /\ \A i \in 1 .. Len(t) : h[i] = h[i - 1] + t[i]
  BY SumSteps
<1>3. PICK L \in Nat : L = Len(s) /\ L = Len(t) /\ L = Len(u)
  OBVIOUS
<1>4. PICK f : f = [i \in 0 .. L |-> g[i] + h[i]]
  OBVIOUS
<1>5. f[0] = 0
  BY <1>1, <1>2, <1>3, <1>4
<1>6. ASSUME NEW i \in 1 .. L PROVE f[i] = f[i - 1] + u[i]
  <2>1. f[i] = g[i] + h[i] /\ f[i - 1] = g[i - 1] + h[i - 1]
    BY <1>4
  <2>2. g[i] = g[i - 1] + s[i] /\ h[i] = h[i - 1] + t[i] /\ u[i] = s[i] + t[i]
    BY <1>1, <1>2, <1>3
  <2>3. g[i - 1] \in Int /\ h[i - 1] \in Int /\ s[i] \in Int /\ t[i] \in Int
    <3>1. i - 1 \in 0 .. Len(s) /\ i - 1 \in 0 .. Len(t) /\ i \in 1 .. Len(s) /\ i \in 1 .. Len(t)
      BY <1>3
    <3>2. s[i] \in Int /\ t[i] \in Int
      BY <3>1
    <3>3. g[i - 1] \in Int /\ h[i - 1] \in Int
      BY <3>1
    <3>4. QED
      BY <3>2, <3>3
  <2>4. QED
    BY <2>1, <2>2, <2>3
<1>7. SumSeq(u) = f[L]
  BY <1>3, <1>5, <1>6, SumOf
<1>8. QED
  BY <1>1, <1>2, <1>3, <1>4, <1>7

\* Zeros at the end, or alone, add nothing.
LEMMA SumZeros ==
  ASSUME NEW s \in Seq(Int), \A i \in 1 .. Len(s) : s[i] = 0
  PROVE  SumSeq(s) = 0
<1>1. PICK L \in Nat : L = Len(s)
  OBVIOUS
<1>2. PICK h : h = [i \in 0 .. L |-> 0]
  OBVIOUS
<1>3. SumSeq(s) = h[L]
  BY <1>1, <1>2, SumOf
<1>4. QED
  BY <1>2, <1>3

-----------------------------------------------------------------------------
(* Parts of a sequence. *)

\* A recursion over 0 .. L has a solution.
LEMMA RecursionExists ==
  ASSUME NEW X, NEW base, NEW step, NEW L, Steps(X, base, step, L)
  PROVE  \E g \in [0 .. L -> X] : g[0] = base /\ \A i \in 1 .. L : g[i] = step[i][g[i - 1]]
<1>1. PICK F : IsFold(F, X, base, step, L)
  BY FoldExists
<1>2. /\ F[{}] = base /\ \A i \in 0 .. L : F[1 .. i] \in X
      /\ \A i \in 1 .. L : F[1 .. i] = step[i][F[1 .. i - 1]]
  BY <1>1, FoldSteps
<1>3. L \in Nat
  BY DEF Steps
<1> DEFINE g == [i \in 0 .. L |-> F[1 .. i]]
<1>4. g \in [0 .. L -> X] /\ g[0] = base
  BY <1>2, <1>3
<1>5. ASSUME NEW i \in 1 .. L PROVE g[i] = step[i][g[i - 1]]
  <2>1. g[i] = F[1 .. i] /\ g[i - 1] = F[1 .. i - 1]
    BY <1>3
  <2>2. QED
    BY <1>2, <2>1
<1> HIDE DEF g
<1>6. QED
  BY <1>4, <1>5

\* g holds what InOrder has taken of each prefix of s.
TakesInOrder(g, X, s, S) ==
  /\ g \in [0 .. Len(s) -> Seq(X)]
  /\ g[0] = <<>> /\ g[Len(s)] = InOrder(s, S)
  /\ \A i \in 1 .. Len(s) :
       g[i] = IF s[i] \in S THEN Append(g[i - 1], s[i]) ELSE g[i - 1]

\* InOrder takes or leaves the elements one by one.
LEMMA InOrderSteps ==
  ASSUME NEW X, NEW s \in Seq(X), NEW S
  PROVE  \E g : TakesInOrder(g, X, s, S)
<1> DEFINE Solves(g) == g = [i \in 0 .. Len(s) |->
                               IF i = 0 THEN <<>>
                               ELSE IF s[i] \in S THEN Append(g[i - 1], s[i]) ELSE g[i - 1]]
           F == CHOOSE g : Solves(g)
<1>1. PICK L \in Nat : L = Len(s)
  OBVIOUS
<1>2. PICK Y, base : Y = Seq(X) /\ base = <<>>
  OBVIOUS
<1>3. PICK step : step = [i \in 1 .. L |-> [t \in Y |-> IF s[i] \in S THEN Append(t, s[i]) ELSE t]]
  OBVIOUS
<1>4. Steps(Y, base, step, L)
  BY <1>1, <1>2, <1>3 DEF Steps
<1>5. \A t \in Y, i \in 1 .. L : step[i][t] = IF s[i] \in S THEN Append(t, s[i]) ELSE t
  BY <1>3
<1>6. \E g : Solves(g)
  <2>1. PICK g \in [0 .. L -> Y] : g[0] = base /\ \A i \in 1 .. L : g[i] = step[i][g[i - 1]]
    BY <1>4, RecursionExists
  <2>2. ASSUME NEW i \in 0 .. L
        PROVE  g[i] = IF i = 0 THEN <<>>
                      ELSE IF s[i] \in S THEN Append(g[i - 1], s[i]) ELSE g[i - 1]
    <3>1. CASE i = 0
      BY <1>2, <2>1, <3>1
    <3>2. CASE i # 0
      <4>1. i \in 1 .. L /\ g[i - 1] \in Y
        BY <3>2
      <4>2. QED
        BY <1>5, <2>1, <3>2, <4>1
    <3>3. QED
      BY <3>1, <3>2
  <2>3. Solves(g)
    BY <1>1, <2>2
  <2> HIDE DEF Solves
  <2>4. QED
    BY <2>3
<1>7. Solves(F)
  <2> HIDE DEF Solves
  <2>1. QED
    BY <1>6
<1>8. InOrder(s, S) = F[L]
  BY <1>1 DEF InOrder
<1> HIDE DEF F
<1>9. /\ F[0] = <<>>
      /\ \A i \in 1 .. L : F[i] = IF s[i] \in S THEN Append(F[i - 1], s[i]) ELSE F[i - 1]
  <2> DEFINE E(i) == IF i = 0 THEN <<>>
                     ELSE IF s[i] \in S THEN Append(F[i - 1], s[i]) ELSE F[i - 1]
  <2>1. F = [i \in 0 .. L |-> E(i)]
    BY <1>1, <1>7
  <2> HIDE DEF E
  <2>2. \A i \in 0 .. L : F[i] = E(i)
    BY <2>1
  <2>3. QED
    BY <2>2 DEF E
<1> DEFINE T == {i \in 0 .. L : F[i] \in Seq(X)}
<1>10. \A i \in 0 .. L : i \in T
  <2>1. 0 \in T
    <3>1. <<>> \in Seq(X)
      OBVIOUS
    <3>2. F[0] \in Seq(X)
      BY <1>9, <3>1, Zenon
    <3>3. QED
      BY <3>2
  <2>2. ASSUME NEW i \in 1 .. L, i - 1 \in T PROVE i \in T
    <3>1. F[i - 1] \in Seq(X) /\ s[i] \in X
      BY <1>1, <2>2
    <3>2. Append(F[i - 1], s[i]) \in Seq(X)
      BY <3>1
    <3>3. F[i] \in Seq(X)
      BY <1>9, <3>1, <3>2
    <3>4. QED
      BY <3>3
  <2> HIDE DEF T
  <2>3. QED
    BY <2>1, <2>2, PrefixInduction
<1> DEFINE g == [i \in 0 .. L |-> F[i]]
<1>11. /\ g \in [0 .. L -> Seq(X)] /\ g[0] = <<>> /\ g[L] = F[L]
       /\ \A i \in 1 .. L : g[i] = F[i] /\ g[i - 1] = F[i - 1]
  BY <1>9, <1>10
<1> HIDE DEF g
<1>12. TakesInOrder(g, X, s, S)
  BY <1>1, <1>8, <1>9, <1>11 DEF TakesInOrder
<1>13. QED
  BY <1>12

\* InOrder takes the elements of s that are in S, all and only.
LEMMA InOrderElements ==
  ASSUME NEW X, NEW s \in Seq(X), NEW S
  PROVE  /\ InOrder(s, S) \in Seq(X)
         /\ \A i \in DOMAIN InOrder(s, S) :
              InOrder(s, S)[i] \in S /\ \E j \in DOMAIN s : s[j] = InOrder(s, S)[i]
         /\ \A j \in DOMAIN s : s[j] \in S => \E i \in DOMAIN InOrder(s, S) : s[j] = InOrder(s, S)[i]
<1>0. PICK g : TakesInOrder(g, X, s, S)
  BY InOrderSteps
<1>1. /\ g \in [0 .. Len(s) -> Seq(X)]
      /\ g[0] = <<>> /\ g[Len(s)] = InOrder(s, S)
      /\ \A i \in 1 .. Len(s) :
           g[i] = IF s[i] \in S THEN Append(g[i - 1], s[i]) ELSE g[i - 1]
  BY <1>0 DEF TakesInOrder
<1>2. PICK L \in Nat : L = Len(s)
  OBVIOUS
<1> DEFINE Taken(k) ==
             /\ \A i \in 1 .. Len(g[k]) : g[k][i] \in S /\ \E j \in 1 .. k : s[j] = g[k][i]
             /\ \A j \in 1 .. k : s[j] \in S => \E i \in 1 .. Len(g[k]) : s[j] = g[k][i]
           T == {k \in 0 .. L : Taken(k)}
<1>3. 0 \in T
  BY <1>1
<1>4. ASSUME NEW k \in 1 .. L, k - 1 \in T PROVE k \in T
  <2>1. PICK t \in Seq(X) : t = g[k - 1]
    <3>1. k - 1 \in 0 .. Len(s)
      BY <1>2
    <3>2. QED
      BY <1>1, <3>1
  <2>2. /\ \A i \in 1 .. Len(t) : t[i] \in S /\ \E j \in 1 .. k - 1 : s[j] = t[i]
        /\ \A j \in 1 .. k - 1 : s[j] \in S => \E i \in 1 .. Len(t) : s[j] = t[i]
    BY <1>4, <2>1
  <2>3. CASE s[k] \notin S
    <3>1. g[k] = t
      BY <1>1, <1>2, <2>1, <2>3
    <3>2. Taken(k)
      BY <2>2, <2>3, <3>1
    <3>3. QED
      BY <3>2
  <2>4. CASE s[k] \in S
    <3>1. PICK u : u = Append(t, s[k])
      OBVIOUS
    <3>2. /\ g[k] = u /\ Len(u) = Len(t) + 1 /\ u[Len(t) + 1] = s[k] /\ Len(t) \in Nat
          /\ \A i \in 1 .. Len(t) : u[i] = t[i]
      <4>1. g[k] = u
        BY <1>1, <1>2, <2>1, <2>4, <3>1
      <4>2. s[k] \in X
        BY <1>2
      <4>3. QED
        BY <3>1, <4>1, <4>2
    <3>3. ASSUME NEW i \in 1 .. Len(u) PROVE u[i] \in S /\ \E j \in 1 .. k : s[j] = u[i]
      <4>1. CASE i = Len(t) + 1
        BY <2>4, <3>2, <4>1
      <4>2. CASE i # Len(t) + 1
        <5>1. i \in 1 .. Len(t)
          BY <3>2, <4>2
        <5>2. QED
          BY <2>2, <3>2, <5>1
      <4>3. QED
        BY <4>1, <4>2
    <3>4. ASSUME NEW j \in 1 .. k, s[j] \in S PROVE \E i \in 1 .. Len(u) : s[j] = u[i]
      <4>1. CASE j = k
        BY <3>2, <4>1
      <4>2. CASE j # k
        <5>1. PICK i \in 1 .. Len(t) : s[j] = t[i]
          BY <2>2, <3>4, <4>2
        <5>2. i \in 1 .. Len(u) /\ u[i] = t[i]
          BY <3>2
        <5>3. QED
          BY <5>1, <5>2
      <4>3. QED
        BY <4>1, <4>2
    <3>5. Taken(k)
      BY <3>2, <3>3, <3>4
    <3>6. QED
      BY <3>5
  <2>5. QED
    BY <2>3, <2>4
<1>5. L \in T
  <2>1. \A k \in 1 .. L : k - 1 \in T => k \in T
    BY <1>4
  <2> HIDE DEF T
  <2>2. \A k \in 0 .. L : k \in T
    BY <1>3, <2>1, PrefixInduction
  <2>3. QED
    BY <2>2
<1>6. g[L] = InOrder(s, S) /\ g[L] \in Seq(X)
  BY <1>1, <1>2
<1>7. PICK t \in Seq(X) : t = InOrder(s, S)
  BY <1>6
<1>8. /\ \A i \in 1 .. Len(t) : t[i] \in S /\ \E j \in 1 .. L : s[j] = t[i]
      /\ \A j \in 1 .. L : s[j] \in S => \E i \in 1 .. Len(t) : s[j] = t[i]
  <2>1. Taken(L) /\ g[L] = t
    BY <1>5, <1>6, <1>7
  <2>2. QED
    BY <2>1
<1>9. DOMAIN t = 1 .. Len(t) /\ DOMAIN s = 1 .. L
  BY <1>2
<1>10. QED
  BY <1>7, <1>8, <1>9

-----------------------------------------------------------------------------
(* Sequences of tabulated values, and one after another. *)

LEMMA Tabulated ==
  ASSUME NEW X, NEW L \in Nat, NEW f \in [1 .. L -> X]
  PROVE  f \in Seq(X) /\ Len(f) = L /\ DOMAIN f = 1 .. L
OBVIOUS

\* One sequence after another.
LEMMA Joined ==
  ASSUME NEW X, NEW s \in Seq(X), NEW t \in Seq(X)
  PROVE  /\ s \o t \in Seq(X) /\ Len(s \o t) = Len(s) + Len(t)
         /\ Len(s) \in Nat /\ Len(t) \in Nat
         /\ DOMAIN s = 1 .. Len(s) /\ DOMAIN t = 1 .. Len(t)
         /\ DOMAIN (s \o t) = 1 .. Len(s) + Len(t)
         /\ \A i \in 1 .. Len(s) : (s \o t)[i] = s[i] /\ (s \o t)[i] \in X
         /\ \A i \in 1 .. Len(t) : (s \o t)[Len(s) + i] = t[i] /\ t[i] \in X
OBVIOUS

LEMMA JoinedAt ==
  ASSUME NEW X, NEW s \in Seq(X), NEW t \in Seq(X)
  PROVE  /\ \A i \in 1 .. Len(s) : (s \o t)[i] = s[i]
         /\ \A i \in 1 .. Len(t) : (s \o t)[Len(s) + i] = t[i]
OBVIOUS

-----------------------------------------------------------------------------
(* What the elements of a sequence are worth. *)

Each(s, f) == [i \in DOMAIN s |-> f[s[i]]]

SumOver(s, f) == SumSeq(Each(s, f))

\* A sequence of worths.
LEMMA EachTyped ==
  ASSUME NEW X, NEW s \in Seq(X), NEW f \in [X -> Int]
  PROVE  /\ Each(s, f) \in Seq(Int) /\ Len(Each(s, f)) = Len(s)
         /\ \A i \in DOMAIN s : Each(s, f)[i] = f[s[i]]
         /\ SumOver(s, f) \in Int
<1>1. PICK L \in Nat : L = Len(s) /\ DOMAIN s = 1 .. L
  OBVIOUS
<1>2. PICK u : u = Each(s, f)
  OBVIOUS
<1>3. u \in [1 .. L -> Int] /\ \A i \in DOMAIN s : u[i] = f[s[i]]
  BY <1>1, <1>2 DEF Each
<1>4. u \in Seq(Int) /\ Len(u) = L
  BY <1>3, Tabulated
<1>5. SumSeq(u) \in Int
  BY <1>4, SumType
<1>6. QED
  BY <1>1, <1>2, <1>3, <1>4, <1>5 DEF SumOver

LEMMA EachOf ==
  ASSUME NEW X, NEW s \in Seq(X), NEW f \in [X -> Int]
  PROVE  \E u \in Seq(Int) :
           u = Each(s, f) /\ Len(u) = Len(s) /\ \A i \in DOMAIN s : u[i] = f[s[i]]
<1>1. PICK u : u = Each(s, f)
  OBVIOUS
<1>2. u \in Seq(Int) /\ Len(u) = Len(s) /\ \A i \in DOMAIN s : u[i] = f[s[i]]
  BY <1>1, EachTyped
<1>3. QED
  BY <1>1, <1>2

\* One sequence after another.
LEMMA SumTwo ==
  ASSUME NEW s \in Seq(Int), NEW t \in Seq(Int), NEW u \in Seq(Int),
         Len(u) = Len(s) + Len(t), \A i \in 1 .. Len(s) : u[i] = s[i],
         \A i \in 1 .. Len(t) : u[Len(s) + i] = t[i]
  PROVE  SumSeq(u) = SumSeq(s) + SumSeq(t)
<1>1. PICK L \in Nat, M \in Nat : L = Len(s) /\ M = Len(t)
  OBVIOUS
<1>2. PICK v \in Seq(Int) : v = s \o t
  BY Joined
<1>3. /\ Len(v) = L + M
      /\ \A i \in 1 .. L : v[i] = s[i]
      /\ \A i \in 1 .. M : v[L + i] = t[i]
  BY <1>1, <1>2, Joined
<1>4. ASSUME NEW i \in 1 .. L + M PROVE u[i] = v[i]
  <2>1. CASE i <= L
    BY <1>1, <1>3, <2>1
  <2>2. CASE i > L
    <3>1. PICK k \in 1 .. M : i = L + k
      <4>1. i - L \in 1 .. M /\ i = L + (i - L)
        BY <2>2
      <4>2. QED
        BY <4>1
    <3>2. u[L + k] = t[k]
      BY <1>1
    <3>3. v[L + k] = t[k]
      BY <1>3
    <3>4. QED
      BY <3>1, <3>2, <3>3
  <2>3. QED
    BY <2>1, <2>2
<1>5. u = v
  BY <1>1, <1>3, <1>4
<1>6. QED
  BY <1>2, <1>5, SumConcat

\* The sum of c is that of a and of b.
AddsUp(s, a, b, c) == SumOver(s, c) = SumOver(s, a) + SumOver(s, b)

LEMMA SumOverAdd ==
  ASSUME NEW X, NEW s \in Seq(X), NEW a, NEW b, NEW c,
         a \in [X -> Int], b \in [X -> Int], c \in [X -> Int],
         \A x \in X : c[x] = a[x] + b[x]
  PROVE  AddsUp(s, a, b, c)
<1>1. PICK u \in Seq(Int) :
        u = Each(s, a) /\ Len(u) = Len(s) /\ \A i \in DOMAIN s : u[i] = a[s[i]]
  BY EachOf
<1>2. PICK v \in Seq(Int) :
        v = Each(s, b) /\ Len(v) = Len(s) /\ \A i \in DOMAIN s : v[i] = b[s[i]]
  BY EachOf
<1>3. PICK w \in Seq(Int) :
        w = Each(s, c) /\ Len(w) = Len(s) /\ \A i \in DOMAIN s : w[i] = c[s[i]]
  BY EachOf
<1>4. \A i \in 1 .. Len(u) : w[i] = u[i] + v[i]
  <2>1. SUFFICES ASSUME NEW i \in 1 .. Len(u) PROVE w[i] = u[i] + v[i]
    OBVIOUS
  <2>2. i \in DOMAIN s /\ s[i] \in X
    BY <1>1
  <2>3. u[i] = a[s[i]] /\ v[i] = b[s[i]] /\ w[i] = c[s[i]]
    BY <1>1, <1>2, <1>3, <2>2
  <2>4. c[s[i]] = a[s[i]] + b[s[i]]
    BY <2>2
  <2>5. QED
    BY <2>3, <2>4
<1>5. SumSeq(w) = SumSeq(u) + SumSeq(v)
  <2>1. Len(v) = Len(u) /\ Len(w) = Len(u)
    BY <1>1, <1>2, <1>3
  <2>2. QED
    BY <1>4, <2>1, SumAdd, Zenon
<1>6. QED
  BY <1>1, <1>2, <1>3, <1>5 DEF AddsUp, SumOver

\* f on S, and nothing elsewhere.
Part(f, S, X) == [x \in X |-> IF x \in S THEN f[x] ELSE 0]

\* What the elements in S are worth, summed over the part or over the whole.
LEMMA SumInOrder ==
  ASSUME NEW X, NEW s \in Seq(X), NEW S, NEW f \in [X -> Int]
  PROVE  SumOver(InOrder(s, S), f) = SumOver(s, Part(f, S, X))
<1>0. PICK g : TakesInOrder(g, X, s, S)
  BY InOrderSteps
<1>1. /\ g \in [0 .. Len(s) -> Seq(X)]
      /\ g[0] = <<>> /\ g[Len(s)] = InOrder(s, S)
      /\ \A i \in 1 .. Len(s) :
           g[i] = IF s[i] \in S THEN Append(g[i - 1], s[i]) ELSE g[i - 1]
  BY <1>0 DEF TakesInOrder
<1>2. PICK L \in Nat : L = Len(s) /\ DOMAIN s = 1 .. L
  OBVIOUS
<1>3. PICK u \in Seq(Int) :
        Len(u) = L /\ u = [i \in DOMAIN s |-> IF s[i] \in S THEN f[s[i]] ELSE 0]
  <2> DEFINE v == [i \in DOMAIN s |-> IF s[i] \in S THEN f[s[i]] ELSE 0]
  <2>1. v \in [1 .. L -> Int]
    BY <1>2
  <2>2. v \in Seq(Int) /\ Len(v) = L
    BY <2>1, <1>2
  <2>3. QED
    BY <2>2
<1> DEFINE Worth(t) == [i \in DOMAIN t |-> f[t[i]]]
           h == [k \in 0 .. L |-> SumSeq(Worth(g[k]))]
<1>4. ASSUME NEW t \in Seq(X)
      PROVE  Worth(t) \in Seq(Int)
  <2>1. Worth(t) \in [1 .. Len(t) -> Int]
    OBVIOUS
  <2>2. QED
    BY <2>1
<1>5. h[0] = 0
  <2>1. Worth(g[0]) = <<>>
    BY <1>1
  <2>2. 0 \in 0 .. L
    OBVIOUS
  <2> HIDE DEF Worth
  <2>3. QED
    BY <2>1, <2>2, SumEmpty
<1>6. ASSUME NEW k \in 1 .. L PROVE h[k] = h[k - 1] + u[k]
  <2>1. PICK t \in Seq(X) : t = g[k - 1]
    <3>1. k - 1 \in 0 .. Len(s)
      BY <1>2
    <3>2. QED
      BY <1>1, <3>1
  <2>2. h[k - 1] = SumSeq(Worth(t)) /\ h[k] = SumSeq(Worth(g[k]))
    <3>1. k - 1 \in 0 .. L /\ k \in 0 .. L
      BY <1>2
    <3> HIDE DEF Worth
    <3>2. QED
      BY <2>1, <3>1
  <2>3. SumSeq(Worth(t)) \in Int
    BY <1>4, SumType
  <2>4. CASE s[k] \notin S
    <3>1. g[k] = t /\ u[k] = 0
      BY <1>1, <1>2, <1>3, <2>1, <2>4
    <3>2. QED
      BY <2>2, <2>3, <3>1
  <2>5. CASE s[k] \in S
    <3>1. g[k] = Append(t, s[k]) /\ u[k] = f[s[k]] /\ s[k] \in X /\ f[s[k]] \in Int
      <4>1. g[k] = Append(t, s[k])
        BY <1>1, <1>2, <2>1, <2>5
      <4>2. u[k] = f[s[k]] /\ s[k] \in X
        BY <1>2, <1>3, <2>5
      <4>3. QED
        BY <4>1, <4>2
    <3>2. Worth(Append(t, s[k])) = Append(Worth(t), f[s[k]])
      <4>1. PICK w \in Seq(X) : w = Append(t, s[k])
        <5>1. PICK y \in X : y = s[k]
          BY <3>1
        <5>2. Append(t, y) \in Seq(X)
          BY <5>1
        <5>3. QED
          BY <5>1, <5>2
      <4>2. /\ DOMAIN w = 1 .. Len(t) + 1 /\ w[Len(t) + 1] = s[k] /\ DOMAIN t = 1 .. Len(t)
            /\ \A i \in 1 .. Len(t) : w[i] = t[i]
        <5>1. s[k] \in X
          BY <3>1
        <5>2. QED
          BY <4>1, <5>1
      <4>3. PICK a \in Seq(Int) : a = Worth(t)
        BY <1>4
      <4>4. Len(a) = Len(t) /\ \A i \in 1 .. Len(t) : a[i] = f[t[i]]
        BY <4>2, <4>3
      <4>5. PICK b \in Seq(Int) : b = Append(a, f[s[k]])
        <5>1. PICK y \in Int : y = f[s[k]]
          BY <3>1
        <5>2. Append(a, y) \in Seq(Int)
          BY <5>1
        <5>3. QED
          BY <5>1, <5>2
      <4>6. /\ DOMAIN b = 1 .. Len(t) + 1 /\ b[Len(t) + 1] = f[s[k]]
            /\ \A i \in 1 .. Len(t) : b[i] = a[i]
        BY <4>4, <4>5
      <4>7. PICK c \in Seq(Int) : c = Worth(w)
        BY <1>4
      <4>8. DOMAIN c = 1 .. Len(t) + 1 /\ \A i \in 1 .. Len(t) + 1 : c[i] = f[w[i]]
        BY <4>2, <4>7
      <4>9. ASSUME NEW i \in 1 .. Len(t) + 1 PROVE c[i] = b[i]
        <5>1. CASE i = Len(t) + 1
          BY <4>2, <4>6, <4>8, <5>1
        <5>2. CASE i # Len(t) + 1
          <6>1. i \in 1 .. Len(t)
            BY <5>2
          <6>2. QED
            BY <4>2, <4>4, <4>6, <4>8, <6>1
        <5>3. QED
          BY <5>1, <5>2
      <4>10. b = c
        BY <4>6, <4>8, <4>9
      <4>11. QED
        BY <4>1, <4>3, <4>5, <4>7, <4>10
    <3>3. SumSeq(Append(Worth(t), f[s[k]])) = SumSeq(Worth(t)) + f[s[k]]
      BY <1>4, <3>1, SumAppend
    <3>4. QED
      BY <2>2, <3>1, <3>2, <3>3
  <2>6. QED
    BY <2>4, <2>5
<1>7. h[L] = SumSeq(Worth(InOrder(s, S)))
  BY <1>1, <1>2
<1> HIDE DEF h
<1>8. SumSeq(u) = h[L]
  BY <1>3, <1>5, <1>6, SumOf
<1>9. u = Each(s, Part(f, S, X))
  <2>1. \A i \in DOMAIN s : s[i] \in X
    OBVIOUS
  <2>2. QED
    BY <1>3, <2>1 DEF Each, Part
<1>10. QED
  BY <1>7, <1>8, <1>9 DEF SumOver, Each

\* h is what f gives the elements of S and g those of T.
Splits(h, X, f, S, g, T) ==
  \A x \in X : h[x] = (IF x \in S THEN f[x] ELSE 0) + (IF x \in T THEN g[x] ELSE 0)

PartsAddUp(s, f, S, g, T, h) == SumOver(s, h) = SumOver(InOrder(s, S), f) + SumOver(InOrder(s, T), g)

\* Two parts of a sequence, each with a worth of its own, are worth what every
\* element contributes to either.
LEMMA TwoParts ==
  ASSUME NEW X, NEW s \in Seq(X), NEW S, NEW T, NEW f, NEW g, NEW h,
         f \in [X -> Int], g \in [X -> Int], h \in [X -> Int], Splits(h, X, f, S, g, T)
  PROVE  PartsAddUp(s, f, S, g, T, h)
<1>1. PICK p, q : p = Part(f, S, X) /\ q = Part(g, T, X)
  OBVIOUS
<1>2. p \in [X -> Int] /\ q \in [X -> Int]
  BY <1>1 DEF Part
<1>3. \A x \in X : h[x] = p[x] + q[x]
  BY <1>1 DEF Part, Splits
<1>4. AddsUp(s, p, q, h)
  BY <1>2, <1>3, SumOverAdd
<1>5. SumOver(InOrder(s, S), f) = SumOver(s, p)
  BY <1>1, SumInOrder
<1>6. SumOver(InOrder(s, T), g) = SumOver(s, q)
  BY <1>1, SumInOrder
<1>7. QED
  BY <1>4, <1>5, <1>6 DEF AddsUp, PartsAddUp

\* Nothing sums to nothing.
LEMMA SumOverZero ==
  ASSUME NEW X, NEW s \in Seq(X), NEW f \in [X -> Int], \A i \in DOMAIN s : f[s[i]] = 0
  PROVE  SumOver(s, f) = 0
<1>1. PICK u \in Seq(Int) :
        u = Each(s, f) /\ Len(u) = Len(s) /\ \A i \in DOMAIN s : u[i] = f[s[i]]
  BY EachOf
<1>2. \A i \in 1 .. Len(u) : u[i] = 0
  BY <1>1
<1>3. SumSeq(u) = 0
  BY <1>2, SumZeros
<1>4. QED
  BY <1>1, <1>3 DEF SumOver

\* t is s, with other elements of the same worth and more that are worth nothing.
LEMMA SumOverGrown ==
  ASSUME NEW X, NEW s \in Seq(X), NEW t \in Seq(X), NEW f \in [X -> Int], Len(s) <= Len(t),
         \A i \in 1 .. Len(s) : f[t[i]] = f[s[i]],
         \A i \in Len(s) + 1 .. Len(t) : f[t[i]] = 0
  PROVE  SumOver(t, f) = SumOver(s, f)
<1>1. PICK u \in Seq(Int) :
        u = Each(s, f) /\ Len(u) = Len(s) /\ \A i \in DOMAIN s : u[i] = f[s[i]]
  BY EachOf
<1>2. PICK v \in Seq(Int) :
        v = Each(t, f) /\ Len(v) = Len(t) /\ \A i \in DOMAIN t : v[i] = f[t[i]]
  BY EachOf
<1>3. PICK L \in Nat, M \in Nat : L = Len(s) /\ Len(t) = L + M
  <2>1. PICK K \in Nat, L \in Nat : K = Len(t) /\ L = Len(s) /\ L <= K
    OBVIOUS
  <2>2. K - L \in Nat /\ K = L + (K - L)
    BY <2>1
  <2>3. QED
    BY <2>1, <2>2
<1>4. PICK z : z = [i \in 1 .. M |-> 0]
  OBVIOUS
<1>5. z \in Seq(Int) /\ Len(z) = M /\ \A i \in 1 .. M : z[i] = 0
  <2>1. z \in [1 .. M -> Int]
    BY <1>4
  <2>2. QED
    BY <1>4, <2>1, Tabulated
<1>6. \A i \in 1 .. Len(u) : v[i] = u[i]
  <2>1. SUFFICES ASSUME NEW i \in 1 .. L PROVE v[i] = u[i]
    BY <1>1, <1>3
  <2>2. i \in DOMAIN s /\ i \in DOMAIN t
    BY <1>3
  <2>3. v[i] = f[t[i]] /\ u[i] = f[s[i]]
    BY <1>1, <1>2, <2>2
  <2>4. QED
    BY <1>3, <2>3
<1>7. \A i \in 1 .. Len(z) : v[Len(u) + i] = z[i]
  <2>1. SUFFICES ASSUME NEW i \in 1 .. M PROVE v[L + i] = 0
    BY <1>1, <1>3, <1>5
  <2>2. L + i \in Len(s) + 1 .. Len(t) /\ L + i \in DOMAIN t
    BY <1>3
  <2>3. QED
    BY <1>2, <2>2
<1>8. SumSeq(v) = SumSeq(u) + SumSeq(z)
  <2>1. Len(v) = Len(u) + Len(z)
    BY <1>1, <1>2, <1>3, <1>5
  <2>2. QED
    BY <1>5, <1>6, <1>7, <2>1, SumTwo, Zenon
<1>9. SumSeq(z) = 0 /\ SumSeq(u) \in Int
  BY <1>5, SumZeros, SumType
<1>10. QED
  BY <1>1, <1>2, <1>8, <1>9 DEF SumOver
=============================================================================
