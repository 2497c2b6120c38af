------------------------ MODULE TranscriptionProofs -------------------------
(* What the codecs write they read back, base58 with and without a checksum, *)
(* hex and bech32, so that a text is kept from one run to another; and the   *)
(* search of Bitcoin_FixBase58Check stays within the text it repairs, within *)
(* the number of changes it was allowed, and leaves no text untried: for     *)
(* bytes and texts of any length, and for base58 and hex in any base and     *)
(* with any checksum.                                                        *)
EXTENDS Transcription, DataLemmas, TLAPS, FiniteSetTheorems,
        SequenceTheorems, WellFoundedInduction

-----------------------------------------------------------------------------
(* Numbers and their digits. *)

\* g holds the number that each prefix of s is.
Numbers(g, s, b) ==
  /\ g \in [0 .. Len(s) -> Nat]
  /\ g[0] = 0 /\ g[Len(s)] = Number(s, b)
  /\ \A i \in 1 .. Len(s) : g[i] = g[i - 1] * b + s[i]

\* Number takes the digits one by one.
LEMMA NumberSteps ==
  ASSUME NEW b \in Nat, NEW s \in Seq(Nat)
  PROVE  \E g : Numbers(g, s, b)
<1> DEFINE Solves(g) == g = [t \in SUBSET DOMAIN s |->
                               IF t = {} THEN 0 ELSE g[t \ {Max(t)}] * b + s[Max(t)]]
           F == CHOOSE g : Solves(g)
<1>1. PICK L \in Nat : L = Len(s)
  OBVIOUS
<1>2. PICK X, base : X = Nat /\ base = 0
  OBVIOUS
<1>3. PICK step : step = [i \in 1 .. L |-> [x \in X |-> x * b + s[i]]]
  OBVIOUS
<1>4. Steps(X, base, step, L) /\ DOMAIN s = 1 .. L
  <2>1. \A x \in X, i \in 1 .. L : x * b + s[i] \in X
    BY <1>1, <1>2
  <2>2. step \in [1 .. L -> [X -> X]]
    BY <1>3, <2>1, Zenon
  <2>3. base \in X /\ DOMAIN s = 1 .. L
    BY <1>1, <1>2
  <2>4. QED
    BY <2>2, <2>3, Zenon DEF Steps
<1>5. \A x \in X, i \in 1 .. L : step[i][x] = x * b + s[i]
  BY <1>3
<1>6. \E g : Solves(g)
  <2>1. PICK g \in [SUBSET (1 .. L) -> X] : IsFold(g, X, base, step, L)
    BY <1>4, FoldExists
  <2>2. \A t \in SUBSET (1 .. L) :
          g[t] = IF t = {} THEN base ELSE g[t \ {Max(t)}] * b + s[Max(t)]
    BY <1>5, <2>1, MaxOfPart DEF IsFold
  <2>3. Solves(g)
    BY <1>2, <1>4, <2>2
  <2> HIDE DEF Solves
  <2>4. QED
    BY <2>3
<1>7. Solves(F)
  <2> HIDE DEF Solves
  <2>1. QED
    BY <1>6
<1>8. Number(s, b) = F[1 .. L]
  BY <1>4 DEF Number, FoldLeft, MapThenFoldSet
<1> HIDE DEF F
<1>9. IsFold(F, X, base, step, L)
  <2>1. \A t \in SUBSET (1 .. L) :
          F[t] = IF t = {} THEN base ELSE F[t \ {Max(t)}] * b + s[Max(t)]
    BY <1>2, <1>4, <1>7
  <2>2. QED
    BY <1>5, <2>1, MaxOfPart DEF IsFold
<1>10. /\ F[{}] = base /\ \A i \in 0 .. L : F[1 .. i] \in X
       /\ \A i \in 1 .. L : F[1 .. i] = step[i][F[1 .. i - 1]]
  BY <1>4, <1>9, FoldSteps
<1> DEFINE g == [i \in 0 .. L |-> F[1 .. i]]
<1>11. g \in [0 .. L -> Nat] /\ g[0] = 0 /\ g[L] = Number(s, b)
  BY <1>2, <1>8, <1>9, <1>10
<1>12. ASSUME NEW i \in 1 .. L PROVE g[i] = g[i - 1] * b + s[i]
  <2>1. g[i] = F[1 .. i] /\ g[i - 1] = F[1 .. i - 1] /\ F[1 .. i - 1] \in X
    BY <1>10
  <2>2. QED
    BY <1>5, <1>10, <2>1
<1> HIDE DEF g
<1>13. Numbers(g, s, b)
  BY <1>1, <1>11, <1>12 DEF Numbers
<1>14. QED
  BY <1>13

\* A number is told by those of its prefixes.
LEMMA NumberOf ==
  ASSUME NEW b \in Nat, NEW s \in Seq(Nat), NEW h, h[0] = 0,
         \A i \in 1 .. Len(s) : h[i] = h[i - 1] * b + s[i]
  PROVE  Number(s, b) = h[Len(s)]
<1>1. PICK g : Numbers(g, s, b)
  BY NumberSteps
<1>2. PICK L \in Nat : L = Len(s)
  OBVIOUS
<1> DEFINE S == {i \in 0 .. L : g[i] = h[i]}
<1>3. 0 \in S
  BY <1>1, <1>2 DEF Numbers
<1>4. \A i \in 1 .. L : i - 1 \in S => i \in S
  BY <1>1, <1>2 DEF Numbers
<1>5. \A i \in 0 .. L : i \in S
  <2> HIDE DEF S
  <2>1. QED
    BY <1>3, <1>4, PrefixInduction
<1>6. QED
  BY <1>1, <1>2, <1>5 DEF Numbers

LEMMA NumberEmpty == ASSUME NEW b \in Nat PROVE Number(<<>>, b) = 0
<1>1. <<>> \in Seq(Nat) /\ Len(<<>>) = 0
  OBVIOUS
<1>2. PICK g : Numbers(g, <<>>, b)
  BY <1>1, NumberSteps
<1>3. QED
  BY <1>1, <1>2 DEF Numbers

LEMMA NumberType ==
  ASSUME NEW b \in Nat, NEW s \in Seq(Nat)
  PROVE  Number(s, b) \in Nat
<1>1. PICK g : Numbers(g, s, b)
  BY NumberSteps
<1>2. Len(s) \in 0 .. Len(s)
  OBVIOUS
<1>3. QED
  BY <1>1, <1>2 DEF Numbers

LEMMA NumberAppend ==
  ASSUME NEW b \in Nat, NEW s \in Seq(Nat), NEW d \in Nat
  PROVE  Number(Append(s, d), b) = Number(s, b) * b + d
<1>1. PICK g : Numbers(g, s, b)
  BY NumberSteps
<1>2. PICK L \in Nat : L = Len(s)
  OBVIOUS
<1>3. PICK t : t = Append(s, d)
  OBVIOUS
<1>4. /\ t \in Seq(Nat) /\ Len(t) = L + 1 /\ t[L + 1] = d
      /\ \A i \in 1 .. L : t[i] = s[i]
  BY <1>2, <1>3
<1>5. PICK h : h = [i \in 0 .. L + 1 |-> IF i = L + 1 THEN g[L] * b + d ELSE g[i]]
  OBVIOUS
<1>6. h[0] = 0 /\ h[L + 1] = Number(s, b) * b + d
  BY <1>1, <1>2, <1>5 DEF Numbers
<1>7. ASSUME NEW i \in 1 .. L + 1 PROVE h[i] = h[i - 1] * b + t[i]
  <2>1. CASE i = L + 1
    BY <1>2, <1>4, <1>5, <2>1
  <2>2. CASE i \in 1 .. L
    <3>1. h[i] = g[i] /\ h[i - 1] = g[i - 1] /\ t[i] = s[i]
      BY <1>4, <1>5, <2>2
    <3>2. QED
      BY <1>1, <1>2, <2>2, <3>1 DEF Numbers
  <2>3. QED
    BY <2>1, <2>2
<1>8. Number(t, b) = h[Len(t)]
  <2>1. \A i \in 1 .. Len(t) : h[i] = h[i - 1] * b + t[i]
    BY <1>4, <1>7
  <2>2. QED
    BY <1>4, <1>6, <2>1, NumberOf, Zenon
<1>9. QED
  BY <1>3, <1>4, <1>6, <1>8

\* Zeros in front do not count.
LEMMA NumberZeros ==
  ASSUME NEW b \in Nat, NEW z \in Nat, NEW t \in Seq(Nat)
  PROVE  Zeros(z) \o t \in Seq(Nat) /\ Number(Zeros(z) \o t, b) = Number(t, b)
<1>1. PICK g : Numbers(g, t, b)
  BY NumberSteps
<1>2. PICK L \in Nat : L = Len(t)
  OBVIOUS
<1>3. PICK o : o = Zeros(z)
  OBVIOUS
<1>4. o \in Seq(Nat) /\ Len(o) = z /\ \A i \in 1 .. z : o[i] = 0
  BY <1>3 DEF Zeros
<1>5. PICK s : s = o \o t
  OBVIOUS
<1>6. /\ s \in Seq(Nat) /\ Len(s) = z + L
      /\ \A i \in 1 .. z : s[i] = 0
      /\ \A i \in z + 1 .. z + L : s[i] = t[i - z]
  <2>1. /\ s \in Seq(Nat) /\ Len(s) = z + L
        /\ \A i \in 1 .. z : s[i] = o[i]
        /\ \A i \in 1 .. L : s[z + i] = t[i]
    BY <1>2, <1>4, <1>5, Joined, JoinedAt
  <2>2. \A i \in z + 1 .. z + L : i - z \in 1 .. L /\ z + (i - z) = i
    OBVIOUS
  <2>3. \A i \in z + 1 .. z + L : s[i] = t[i - z]
    BY <2>1, <2>2, Zenon
  <2>4. QED
    BY <1>4, <2>1, <2>3
<1>7. PICK h : h = [i \in 0 .. z + L |-> IF i <= z THEN 0 ELSE g[i - z]]
  OBVIOUS
<1>8. h[0] = 0 /\ h[z + L] = Number(t, b)
  BY <1>1, <1>2, <1>7 DEF Numbers
<1>9. ASSUME NEW i \in 1 .. z + L PROVE h[i] = h[i - 1] * b + s[i]
  <2>1. CASE i <= z
    BY <1>6, <1>7, <2>1
  <2>2. CASE i > z
    <3>1. i - z \in 1 .. L /\ i \in z + 1 .. z + L
      BY <2>2
    <3>2. g[i - z] = g[i - z - 1] * b + t[i - z]
      BY <1>1, <1>2, <3>1 DEF Numbers
    <3>3. h[i] = g[i - z] /\ h[i - 1] = g[i - z - 1]
      <4>1. h[i] = g[i - z]
        BY <1>7, <2>2
      <4>2. CASE i - 1 <= z
        <5>1. i - z - 1 = 0 /\ h[i - 1] = 0
          BY <1>7, <2>2, <4>2
        <5>2. QED
          BY <1>1, <4>1, <5>1 DEF Numbers
      <4>3. CASE ~(i - 1 <= z)
        BY <1>7, <2>2, <4>1, <4>3
      <4>4. QED
        BY <4>2, <4>3
    <3>4. s[i] = t[i - z] /\ i - z - 1 = i - 1 - z
      BY <1>6, <3>1
    <3>5. QED
      BY <3>2, <3>3, <3>4
  <2>3. QED
    BY <2>1, <2>2
<1>10. Number(s, b) = h[Len(s)]
  <2>1. \A i \in 1 .. Len(s) : h[i] = h[i - 1] * b + s[i]
    BY <1>6, <1>9
  <2>2. QED
    BY <1>6, <1>8, <2>1, NumberOf, Zenon
<1>11. QED
  BY <1>3, <1>5, <1>6, <1>8, <1>10

\* Division leaves less, and a rest.
LEMMA Divided ==
  ASSUME NEW b \in Nat, b > 1, NEW m \in Nat, m > 0
  PROVE  \E q \in 0 .. m - 1, d \in 0 .. b - 1 :
           q = m \div b /\ d = m % b /\ m = q * b + d
<1>1. PICK q \in Nat, d \in 0 .. b - 1 : q = m \div b /\ d = m % b
  OBVIOUS
<1>2. q * b <= m
  BY <1>1
<1>3. q < m
  BY <1>2
<1>4. PICK p \in Int : p = q * b
  OBVIOUS
<1>5. b * q = p
  BY <1>4
<1>6. m % b = m - b * (m \div b)
  OBVIOUS
<1>7. d = m - p
  BY <1>1, <1>5, <1>6, Zenon
<1>8. m = q * b + d
  BY <1>4, <1>7
<1>9. QED
  BY <1>1, <1>3, <1>8

LEMMA DividesDown ==
  ASSUME NEW b \in Nat, b > 1, NEW m \in Nat, m > 0
  PROVE  m \div b \in 0 .. m - 1 /\ m % b \in 0 .. b - 1
<1>1. PICK q \in 0 .. m - 1, d \in 0 .. b - 1 : q = m \div b /\ d = m % b
  BY Divided
<1>2. QED
  BY <1>1, Zenon

LEMMA DividedBack ==
  ASSUME NEW b \in Nat, b > 1, NEW n \in Nat, NEW d \in 0 .. b - 1
  PROVE  (n * b + d) \div b = n /\ (n * b + d) % b = d
OBVIOUS

\* f holds the digits of every number up to n.
DigitsUpTo(f, n, b) ==
  /\ f \in [0 .. n -> Seq(0 .. b - 1)]
  /\ f[0] = <<>> /\ f[n] = DigitsOf(n, b)
  /\ \A m \in 1 .. n : f[m] = Append(f[m \div b], m % b)

LEMMA DigitSteps ==
  ASSUME NEW b \in Nat, b > 1, NEW n \in Nat
  PROVE  \E f : DigitsUpTo(f, n, b)
<1> DEFINE D == Seq(0 .. b - 1)
           Solves(f, k) == \A m \in 0 .. k :
             f[m] = IF m = 0 THEN <<>> ELSE Append(f[m \div b], m % b)
           K == {k \in 0 .. n : \E f \in [0 .. k -> D] : Solves(f, k)}
<1>1. 0 \in K
  <2>1. PICK f : f = [m \in 0 .. 0 |-> <<>>]
    OBVIOUS
  <2>2. <<>> \in D
    OBVIOUS
  <2>3. f \in [0 .. 0 -> D]
    BY <2>1, <2>2
  <2>4. Solves(f, 0)
    BY <2>1
  <2>5. 0 \in 0 .. n
    OBVIOUS
  <2> HIDE DEF Solves, D
  <2>6. QED
    BY <2>3, <2>4, <2>5
<1>2. ASSUME NEW k \in 1 .. n, k - 1 \in K PROVE k \in K
  <2>1. PICK f \in [0 .. k - 1 -> D] : Solves(f, k - 1)
    <3> HIDE DEF Solves, D
    <3>1. QED
      BY <1>2
  <2>2. PICK h : h = [m \in 0 .. k |-> IF m = k THEN Append(f[k \div b], k % b) ELSE f[m]]
    OBVIOUS
  <2>3. k \div b \in 0 .. k - 1 /\ k % b \in 0 .. b - 1
    <3>1. k \in Nat /\ k > 0
      OBVIOUS
    <3>2. QED
      BY <3>1, DividesDown, Zenon
  <2>4. Append(f[k \div b], k % b) \in D
    <3>1. f[k \div b] \in D
      BY <2>3
    <3>2. QED
      BY <2>3, <3>1
  <2>5. h \in [0 .. k -> D]
    <3>1. \A m \in 0 .. k : m = k \/ m \in 0 .. k - 1
      OBVIOUS
    <3> HIDE DEF D
    <3>2. QED
      BY <2>2, <2>4, <3>1
  <2>6. Solves(h, k)
    <3>1. SUFFICES ASSUME NEW m \in 0 .. k
                   PROVE  h[m] = IF m = 0 THEN <<>> ELSE Append(h[m \div b], m % b)
      OBVIOUS
    <3>2. CASE m = 0
      <4>1. h[m] = f[0] /\ 0 \in 0 .. k - 1
        BY <2>2, <3>2
      <4>2. QED
        BY <2>1, <3>2, <4>1
    <3>3. CASE m \in 1 .. k - 1
      <4>1. m \div b \in 0 .. k - 1
        <5>1. m \in Nat /\ m > 0
          BY <3>3
        <5>2. m \div b \in 0 .. m - 1
          BY <5>1, DividesDown, Zenon
        <5>3. QED
          BY <3>3, <5>2
      <4>2. h[m] = f[m] /\ h[m \div b] = f[m \div b]
        BY <2>2, <3>3, <4>1
      <4>3. f[m] = Append(f[m \div b], m % b)
        <5>1. m \in 0 .. k - 1 /\ m # 0
          BY <3>3
        <5>2. QED
          BY <2>1, <5>1, Zenon
      <4>4. QED
        BY <3>3, <4>2, <4>3
    <3>4. CASE m = k
      <4>1. h[k \div b] = f[k \div b]
        BY <2>2, <2>3
      <4>2. h[k] = Append(f[k \div b], k % b)
        BY <2>2
      <4>3. QED
        BY <3>4, <4>1, <4>2
    <3>5. QED
      BY <3>2, <3>3, <3>4
  <2> HIDE DEF Solves, D
  <2>7. QED
    BY <2>5, <2>6
<1>3. n \in K
  <2> HIDE DEF K
  <2>1. \A k \in 0 .. n : k \in K
    BY <1>1, <1>2, PrefixInduction
  <2>2. QED
    BY <2>1
<1> DEFINE Is(f) == f = [m \in 0 .. n |->
                            IF m = 0 THEN <<>> ELSE Append(f[m \div b], m % b)]
           F == CHOOSE f : Is(f)
<1>4. PICK f \in [0 .. n -> D] : Solves(f, n)
  <2> HIDE DEF Solves, D
  <2>1. QED
    BY <1>3
<1>5. Is(f)
  BY <1>4
<1>6. Is(F)
  <2> HIDE DEF Is
  <2>1. QED
    BY <1>5
<1>7. F[n] = DigitsOf(n, b)
  BY DEF DigitsOf
<1> HIDE DEF F
<1>8. /\ F = [m \in 0 .. n |-> F[m]] /\ F[0] = <<>>
      /\ \A m \in 1 .. n : F[m] = Append(F[m \div b], m % b)
  <2>1. /\ F = [m \in 0 .. n |-> F[m]]
        /\ \A m \in 0 .. n : F[m] = IF m = 0 THEN <<>> ELSE Append(F[m \div b], m % b)
    BY <1>6, Zenon
  <2>2. 0 \in 0 .. n /\ \A m \in 1 .. n : m \in 0 .. n /\ m # 0
    OBVIOUS
  <2>3. QED
    BY <2>1, <2>2, Zenon
<1>9. \A m \in 0 .. n : F[m] \in D
  <2> DEFINE T == {k \in 0 .. n : \A m \in 0 .. k : F[m] \in D}
  <2>1. 0 \in T
    <3>1. F[0] \in D
      BY <1>8
    <3>2. \A m \in 0 .. 0 : m = 0
      OBVIOUS
    <3>3. 0 \in 0 .. n
      OBVIOUS
    <3> HIDE DEF D
    <3>4. QED
      BY <3>1, <3>2, <3>3, Zenon
  <2>2. ASSUME NEW k \in 1 .. n, k - 1 \in T PROVE k \in T
    <3>1. k \div b \in 0 .. k - 1 /\ k % b \in 0 .. b - 1
      <4>1. k \in Nat /\ k > 0
        OBVIOUS
      <4>2. QED
        BY <4>1, DividesDown, Zenon
    <3>2. F[k \div b] \in D
      BY <2>2, <3>1
    <3>3. F[k] \in D
      <4>1. F[k] = Append(F[k \div b], k % b)
        BY <1>8
      <4>2. QED
        BY <3>1, <3>2, <4>1
    <3>4. \A m \in 0 .. k : m = k \/ m \in 0 .. k - 1
      OBVIOUS
    <3> HIDE DEF D
    <3>5. QED
      BY <2>2, <3>3, <3>4
  <2>3. \A k \in 0 .. n : k \in T
    <3> HIDE DEF T
    <3>1. QED
      BY <2>1, <2>2, PrefixInduction
  <2>4. n \in T
    <3> HIDE DEF T
    <3>1. QED
      BY <2>3
  <2> HIDE DEF D
  <2>5. QED
    BY <2>4
<1>10. DigitsUpTo(F, n, b)
  <2>1. F \in [0 .. n -> D]
    <3> HIDE DEF D
    <3>1. QED
      BY <1>8, <1>9, Zenon
  <2>2. QED
    BY <1>7, <1>8, <2>1 DEF DigitsUpTo
<1>11. QED
  BY <1>10

\* The digits of a number are those of the base, the first is not zero, and
\* they make up the number.
LEMMA DigitsMake ==
  ASSUME NEW b \in Nat, b > 1, NEW n \in Nat
  PROVE  /\ DigitsOf(n, b) \in Seq(0 .. b - 1)
         /\ Number(DigitsOf(n, b), b) = n
         /\ DigitsOf(n, b) # <<>> => DigitsOf(n, b)[1] # 0
<1>1. PICK f : DigitsUpTo(f, n, b)
  BY DigitSteps
<1>2. /\ f \in [0 .. n -> Seq(0 .. b - 1)] /\ f[0] = <<>>
      /\ \A m \in 1 .. n : f[m] = Append(f[m \div b], m % b)
  BY <1>1 DEF DigitsUpTo
<1> DEFINE Makes(m) == /\ Number(f[m], b) = m
                       /\ m = 0 => f[m] = <<>>
                       /\ m # 0 => f[m] # <<>> /\ f[m][1] # 0
           T == {k \in 0 .. n : \A m \in 0 .. k : Makes(m)}
<1>3. 0 \in T
  BY <1>2, NumberEmpty
<1>4. ASSUME NEW k \in 1 .. n, k - 1 \in T PROVE k \in T
  <2>1. PICK q \in 0 .. k - 1, d \in 0 .. b - 1 :
          q = k \div b /\ d = k % b /\ k = q * b + d
    BY Divided
  <2>2. q \in 0 .. k - 1 /\ d \in 0 .. b - 1 /\ k = q * b + d
    BY <2>1
  <2>3. Makes(q) /\ f[q] \in Seq(0 .. b - 1)
    <3>1. f[q] \in Seq(0 .. b - 1)
      <4>1. q \in 0 .. n
        BY <2>2
      <4>2. QED
        BY <1>2, <4>1, Zenon
    <3> HIDE DEF Makes
    <3>2. QED
      BY <1>4, <2>2, <3>1
  <2>4. f[k] = Append(f[q], d)
    BY <1>2, <2>1, Zenon
  <2>5. f[q] \in Seq(Nat) /\ d \in Nat
    BY <2>2, <2>3
  <2>6. Number(f[k], b) = k
    BY <2>2, <2>3, <2>4, <2>5, NumberAppend
  <2>7. f[k] # <<>> /\ f[k][1] # 0
    <3>1. CASE q = 0
      <4>1. f[k] = Append(<<>>, d)
        BY <2>3, <2>4, <3>1
      <4>2. k = d
        BY <2>2, <3>1
      <4>3. QED
        BY <4>1, <4>2
    <3>2. CASE q # 0
      <4>1. PICK t \in Seq(Nat) : t = f[q]
        BY <2>5
      <4>2. t # <<>> /\ t[1] # 0
        BY <2>3, <3>2, <4>1
      <4>3. f[k] = Append(t, d)
        BY <2>4, <4>1
      <4>4. QED
        BY <2>5, <4>2, <4>3
    <3>3. QED
      BY <3>1, <3>2
  <2>8. Makes(k)
    BY <2>6, <2>7
  <2>9. \A m \in 0 .. k : m = k \/ m \in 0 .. k - 1
    OBVIOUS
  <2> HIDE DEF Makes
  <2>10. QED
    BY <1>4, <2>8, <2>9
<1>5. n \in T
  <2> HIDE DEF T
  <2>1. \A k \in 0 .. n : k \in T
    BY <1>3, <1>4, PrefixInduction
  <2>2. QED
    BY <2>1
<1>6. Makes(n)
  <2> HIDE DEF Makes
  <2>1. QED
    BY <1>5
<1>7. QED
  BY <1>1, <1>2, <1>6 DEF DigitsUpTo

\* And they are the only ones.
LEMMA DigitsOfNumber ==
  ASSUME NEW b \in Nat, b > 1, NEW s \in Seq(0 .. b - 1), s # <<>> => s[1] # 0
  PROVE  DigitsOf(Number(s, b), b) = s
<1>0. s \in Seq(Nat)
  OBVIOUS
<1>1. PICK g : Numbers(g, s, b)
  BY <1>0, NumberSteps
<1>2. PICK L \in Nat : L = Len(s)
  OBVIOUS
<1>3. /\ g \in [0 .. L -> Nat] /\ g[0] = 0 /\ g[L] = Number(s, b)
      /\ \A i \in 1 .. L : g[i] = g[i - 1] * b + s[i]
  BY <1>1, <1>2 DEF Numbers
<1>4. PICK n \in Nat : n = Number(s, b)
  BY <1>0, NumberType
<1>5. PICK f : DigitsUpTo(f, n, b)
  BY DigitSteps
<1>6. ASSUME NEW i \in 1 .. L
      PROVE  /\ g[i] \in Nat /\ g[i - 1] \in Nat /\ s[i] \in 0 .. b - 1
             /\ g[i] = g[i - 1] * b + s[i] /\ g[i - 1] <= g[i]
             /\ g[i - 1] > 0 => g[i] > 0
  <2>1. i \in 0 .. L /\ i - 1 \in 0 .. L /\ s[i] \in 0 .. b - 1
    BY <1>2
  <2>2. g[i] = g[i - 1] * b + s[i]
    BY <1>3, Zenon
  <2>3. PICK x \in Nat, y \in Nat : x = g[i - 1] /\ y = g[i]
    BY <1>3, <2>1
  <2>4. PICK p \in Nat : p = x * b
    OBVIOUS
  <2>5. x <= p
    BY <2>4
  <2>6. y = p + s[i]
    BY <2>2, <2>3, <2>4
  <2>7. x <= y /\ (x > 0 => y > 0)
    BY <2>1, <2>5, <2>6
  <2>8. QED
    BY <2>1, <2>2, <2>3, <2>7
<1>7. \A i \in 0 .. L : g[i] <= n
  <2> DEFINE T == {i \in 0 .. L : g[L - i] <= n}
  <2>1. 0 \in T
    BY <1>3, <1>4
  <2>2. ASSUME NEW i \in 1 .. L, i - 1 \in T PROVE i \in T
    <3>1. L - i + 1 \in 1 .. L /\ L - i + 1 - 1 = L - i /\ L - (i - 1) = L - i + 1
      OBVIOUS
    <3>2. g[L - i] \in Nat /\ g[L - i + 1] \in Nat /\ g[L - i] <= g[L - i + 1]
      BY <1>6, <3>1
    <3>3. g[L - i + 1] <= n
      BY <2>2, <3>1
    <3>4. QED
      BY <3>2, <3>3
  <2>3. \A i \in 0 .. L : i \in T
    <3> HIDE DEF T
    <3>1. QED
      BY <2>1, <2>2, PrefixInduction
  <2>4. SUFFICES ASSUME NEW i \in 0 .. L PROVE g[i] <= n
    OBVIOUS
  <2>5. L - i \in 0 .. L /\ L - (L - i) = i
    OBVIOUS
  <2>6. L - i \in T
    <3> HIDE DEF T
    <3>1. QED
      BY <2>3, <2>5
  <2>7. QED
    BY <2>5, <2>6
<1>8. \A i \in 1 .. L : g[i] > 0
  <2> DEFINE T == {i \in 0 .. L : i = 0 \/ g[i] > 0}
  <2>1. 0 \in T
    OBVIOUS
  <2>2. ASSUME NEW i \in 1 .. L, i - 1 \in T PROVE i \in T
    <3>1. CASE i = 1
      <4>1. g[1] = 0 * b + s[1] /\ s[1] # 0
        BY <1>2, <1>3, <1>6, <3>1
      <4>2. QED
        BY <1>6, <3>1, <4>1
    <3>2. CASE i # 1
      BY <1>6, <2>2, <3>2
    <3>3. QED
      BY <3>1, <3>2
  <2>3. \A i \in 0 .. L : i \in T
    <3> HIDE DEF T
    <3>1. QED
      BY <2>1, <2>2, PrefixInduction
  <2>4. QED
    BY <2>3
<1> DEFINE P == {i \in 0 .. L : f[g[i]] = SubSeq(s, 1, i)}
<1>9. 0 \in P
  <2>1. f[g[0]] = <<>>
    BY <1>3, <1>5 DEF DigitsUpTo
  <2>2. SubSeq(s, 1, 0) = <<>>
    BY <1>0
  <2>3. 0 \in 0 .. L
    OBVIOUS
  <2>4. QED
    BY <2>1, <2>2, <2>3, Zenon
<1>10. ASSUME NEW i \in 1 .. L, i - 1 \in P PROVE i \in P
  <2>1. g[i] \in 1 .. n
    BY <1>6, <1>7, <1>8
  <2>2. g[i] \div b = g[i - 1] /\ g[i] % b = s[i]
    <3>1. PICK x \in Nat, d \in 0 .. b - 1 : x = g[i - 1] /\ d = s[i]
      BY <1>6
    <3>2. (x * b + d) \div b = x /\ (x * b + d) % b = d
      BY DividedBack
    <3>3. g[i] = x * b + d
      BY <1>3, <3>1, Zenon
    <3>4. QED
      BY <3>1, <3>2, <3>3, Zenon
  <2>3. f[g[i]] = Append(f[g[i - 1]], s[i])
    BY <1>5, <2>1, <2>2 DEF DigitsUpTo
  <2>4. f[g[i - 1]] = SubSeq(s, 1, i - 1)
    BY <1>10
  <2>5. Append(SubSeq(s, 1, i - 1), s[i]) = SubSeq(s, 1, i)
    BY <1>2
  <2>6. f[g[i]] = SubSeq(s, 1, i)
    BY <2>3, <2>4, <2>5, Zenon
  <2>7. QED
    BY <2>6
<1>11. L \in P
  <2> HIDE DEF P
  <2>1. \A i \in 0 .. L : i \in P
    BY <1>9, <1>10, PrefixInduction
  <2>2. QED
    BY <2>1
<1>12. SubSeq(s, 1, L) = s
  BY <1>2
<1>13. QED
  BY <1>3, <1>4, <1>5, <1>11, <1>12 DEF DigitsUpTo

\* A sequence after another, the front of one, and another part of it: what they
\* are in words of their own, for the provers to pass on.
JoinOf(s, a, b, f, m) ==
  /\ s = a \o b /\ Len(s) = f + m
  /\ \A i \in 1 .. f : s[i] = a[i]
  /\ \A i \in 1 .. m : s[f + i] = b[i]

LEMMA JoinIs ==
  ASSUME NEW X, NEW a \in Seq(X), NEW b \in Seq(X), NEW f \in Nat, NEW m \in Nat,
         Len(a) = f, Len(b) = m
  PROVE  \E s \in Seq(X) : JoinOf(s, a, b, f, m)
<1>1. PICK s : s = a \o b
  OBVIOUS
<1>2. s \in Seq(X) /\ Len(s) = f + m
  BY <1>1
<1>3. /\ \A i \in 1 .. f : s[i] = a[i]
      /\ \A i \in 1 .. m : s[f + i] = b[i]
  BY <1>1
<1>4. QED
  BY <1>1, <1>2, <1>3 DEF JoinOf

FrontOf(s, t, l) ==
  s = SubSeq(t, 1, l) /\ Len(s) = l /\ \A i \in 1 .. l : s[i] = t[i]

LEMMA FrontIs ==
  ASSUME NEW X, NEW t \in Seq(X), NEW m \in Nat, NEW l \in 0 .. m, Len(t) = m
  PROVE  \E s \in Seq(X) : FrontOf(s, t, l)
<1>1. PICK s : s = SubSeq(t, 1, l)
  OBVIOUS
<1>2. s \in Seq(X) /\ Len(s) = l
  BY <1>1
<1>3. \A i \in 1 .. l : s[i] = t[i]
  BY <1>1
<1>4. QED
  BY <1>1, <1>2, <1>3 DEF FrontOf

PartIn(s, t, m, n) ==
  s = SubSeq(t, m + 1, m + n) /\ Len(s) = n /\ \A i \in 1 .. n : s[i] = t[m + i]

LEMMA PartIs ==
  ASSUME NEW X, NEW t \in Seq(X), NEW m \in Nat, NEW n \in Nat, m + n <= Len(t)
  PROVE  \E s \in Seq(X) : PartIn(s, t, m, n)
<1>1. PICK s : s = SubSeq(t, m + 1, m + n)
  OBVIOUS
<1>2. s \in Seq(X) /\ Len(s) = n
  BY <1>1
<1>3. \A i \in 1 .. n : s[i] = t[m + i]
  BY <1>1
<1>4. QED
  BY <1>1, <1>2, <1>3 DEF PartIn

\* z zeros lead s.
Leads(z, s) ==
  /\ z \in 0 .. Len(s) /\ \A i \in 1 .. z : s[i] = 0
  /\ z < Len(s) => s[z + 1] # 0

LEMMA LeadingZerosLead ==
  ASSUME NEW s \in Seq(Nat)
  PROVE  Leads(LeadingZeros(s), s)
<1>1. PICK L \in Nat : L = Len(s) /\ DOMAIN s = 1 .. L
  OBVIOUS
<1>2. CASE AllZero(s)
  BY <1>1, <1>2 DEF LeadingZeros, AllZero, Leads
<1>3. CASE ~AllZero(s)
  <2> DEFINE At(i) == s[i] # 0 /\ AllZero(SubSeq(s, 1, i - 1))
             N == {i \in 1 .. L : s[i] # 0}
  <2>1. N # {} /\ N \in SUBSET Nat
    BY <1>1, <1>3 DEF AllZero
  <2>2. PICK m \in N : \A i \in N : m <= i
    <3> HIDE DEF N
    <3>1. QED
      BY <2>1, MinOfNats
  <2>3. ASSUME NEW i \in 1 .. L
        PROVE  At(i) <=> s[i] # 0 /\ \A j \in 1 .. i - 1 : s[j] = 0
    <3>1. /\ DOMAIN SubSeq(s, 1, i - 1) = 1 .. i - 1
          /\ \A j \in 1 .. i - 1 : SubSeq(s, 1, i - 1)[j] = s[j]
      BY <1>1
    <3>2. QED
      BY <3>1 DEF AllZero
  <2>4. m \in 1 .. L /\ At(m)
    <3>1. m \in 1 .. L /\ s[m] # 0
      OBVIOUS
    <3>2. \A j \in 1 .. m - 1 : s[j] = 0
      <4>1. SUFFICES ASSUME NEW j \in 1 .. m - 1, s[j] # 0 PROVE FALSE
        OBVIOUS
      <4>2. j \in N
        BY <3>1, <4>1
      <4>3. QED
        BY <2>2, <3>1, <4>2
    <3> HIDE DEF At
    <3>3. QED
      BY <2>3, <3>1, <3>2
  <2>5. PICK c : c = CHOOSE i \in 1 .. L : At(i)
    OBVIOUS
  <2>6. c \in 1 .. L /\ At(c)
    <3> HIDE DEF At
    <3>1. QED
      BY <2>4, <2>5
  <2>7. LeadingZeros(s) = c - 1
    BY <1>1, <1>3, <2>5 DEF LeadingZeros
  <2>8. s[c] # 0 /\ \A j \in 1 .. c - 1 : s[j] = 0
    <3> HIDE DEF At
    <3>1. QED
      BY <2>3, <2>6
  <2>9. Leads(c - 1, s)
    <3>1. c - 1 + 1 = c /\ c - 1 \in 0 .. L
      BY <2>6
    <3>2. QED
      BY <1>1, <2>8, <3>1 DEF Leads
  <2>10. QED
    BY <2>7, <2>9
<1>4. QED
  BY <1>2, <1>3

LEMMA LeadsOnce ==
  ASSUME NEW s \in Seq(Nat), NEW y, NEW z, Leads(y, s), Leads(z, s)
  PROVE  y = z
BY DEF Leads

LEMMA ZerosAre ==
  ASSUME NEW z \in Nat
  PROVE  Zeros(z) \in Seq(Nat) /\ Len(Zeros(z)) = z /\ \A i \in 1 .. z : Zeros(z)[i] = 0
BY DEF Zeros

\* The zeros and the rest.
LEMMA Stripped ==
  ASSUME NEW a \in Nat, NEW s \in Seq(0 .. a - 1)
  PROVE  \E z \in Nat, t \in Seq(0 .. a - 1) :
           /\ z = LeadingZeros(s) /\ s = Zeros(z) \o t
           /\ t # <<>> => t[1] # 0
<1>0. s \in Seq(Nat)
  OBVIOUS
<1>1. PICK L \in Nat : L = Len(s) /\ DOMAIN s = 1 .. L
  OBVIOUS
<1>2. PICK z : z = LeadingZeros(s)
  OBVIOUS
<1>3. z \in 0 .. L /\ (\A i \in 1 .. z : s[i] = 0) /\ (z < L => s[z + 1] # 0)
  BY <1>0, <1>1, <1>2, LeadingZerosLead DEF Leads
<1>4. PICK t : t = SubSeq(s, z + 1, L)
  OBVIOUS
<1>5. /\ t \in Seq(0 .. a - 1) /\ Len(t) = L - z
      /\ \A i \in 1 .. L - z : t[i] = s[z + i]
  BY <1>1, <1>3, <1>4
<1>6. t # <<>> => t[1] # 0
  BY <1>3, <1>5
<1>7. s = Zeros(z) \o t
  <2>1. PICK o \in Seq(Nat) : o = Zeros(z) /\ Len(o) = z /\ \A i \in 1 .. z : o[i] = 0
    <3>1. z \in Nat
      BY <1>1, <1>3
    <3>2. QED
      BY <3>1, ZerosAre
  <2>2. t \in Seq(Nat)
    BY <1>5
  <2>3. PICK r : r = o \o t
    OBVIOUS
  <2>4. /\ r \in Seq(Nat) /\ Len(r) = L
        /\ \A i \in 1 .. z : r[i] = o[i]
        /\ \A i \in 1 .. L - z : r[z + i] = t[i]
    <3>1. Len(o) + Len(t) = L /\ Len(t) = L - z
      BY <1>1, <1>3, <1>5, <2>1
    <3>2. /\ r \in Seq(Nat) /\ Len(r) = Len(o) + Len(t)
          /\ \A i \in 1 .. Len(o) : r[i] = o[i]
          /\ \A i \in 1 .. Len(t) : r[Len(o) + i] = t[i]
      BY <2>2, <2>3, Joined, JoinedAt
    <3>3. QED
      BY <2>1, <3>1, <3>2, Zenon
  <2>5. ASSUME NEW i \in 1 .. L PROVE r[i] = s[i]
    <3>1. CASE i <= z
      BY <1>3, <2>1, <2>4, <3>1
    <3>2. CASE i > z
      <4>1. i - z \in 1 .. L - z /\ z + (i - z) = i
        BY <1>3, <3>2
      <4>2. QED
        BY <1>5, <2>4, <4>1
    <3>3. QED
      BY <1>3, <3>1, <3>2
  <2>6. r = s
    <3>1. r = [i \in 1 .. L |-> r[i]] /\ s = [i \in 1 .. L |-> s[i]]
      BY <1>0, <1>1, <2>4
    <3>2. QED
      BY <2>5, <3>1
  <2>7. QED
    BY <2>1, <2>3, <2>6
<1>8. z \in Nat
  BY <1>1, <1>3
<1>9. QED
  BY <1>2, <1>5, <1>6, <1>7, <1>8, Zenon

LEMMA ZerosLead ==
  ASSUME NEW z \in Nat, NEW t \in Seq(Nat), t # <<>> => t[1] # 0
  PROVE  Leads(z, Zeros(z) \o t)
<1>1. PICK o \in Seq(Nat) : o = Zeros(z) /\ Len(o) = z /\ \A i \in 1 .. z : o[i] = 0
  BY ZerosAre
<1>2. PICK r : r = o \o t
  OBVIOUS
<1>3. /\ r \in Seq(Nat) /\ Len(r) = z + Len(t) /\ Len(t) \in Nat
      /\ \A i \in 1 .. z : r[i] = o[i]
      /\ \A i \in 1 .. Len(t) : r[z + i] = t[i]
  <2>1. /\ r \in Seq(Nat) /\ Len(r) = Len(o) + Len(t) /\ Len(t) \in Nat
        /\ \A i \in 1 .. Len(o) : r[i] = o[i]
        /\ \A i \in 1 .. Len(t) : r[Len(o) + i] = t[i]
    BY <1>2, Joined, JoinedAt
  <2>2. QED
    BY <1>1, <2>1, Zenon
<1>4. z < Len(r) => r[z + 1] # 0
  BY <1>3
<1>5. QED
  BY <1>1, <1>2, <1>3, <1>4 DEF Leads

\* Converting from one base to another and back gives the bytes, the zeros in
\* front included.
LEMMA ConvertBack ==
  ASSUME NEW a \in Nat, NEW b \in Nat, a > 1, b > 1, NEW s \in Seq(0 .. a - 1)
  PROVE  /\ Convert(s, a, b) \in Seq(0 .. b - 1)
         /\ Convert(Convert(s, a, b), b, a) = s
<1>1. PICK z \in Nat, t \in Seq(0 .. a - 1) :
        /\ z = LeadingZeros(s) /\ s = Zeros(z) \o t
        /\ t # <<>> => t[1] # 0
  BY Stripped
<1>2. s \in Seq(Nat) /\ t \in Seq(Nat)
  OBVIOUS
<1>3. PICK n \in Nat : n = Number(s, a) /\ n = Number(t, a)
  <2>1. Number(s, a) = Number(t, a)
    BY <1>1, <1>2, NumberZeros
  <2>2. QED
    BY <1>2, <2>1, NumberType
<1>4. PICK d \in Seq(0 .. b - 1) :
        d = DigitsOf(n, b) /\ Number(d, b) = n /\ (d # <<>> => d[1] # 0)
  BY DigitsMake
<1>5. PICK c : c = Zeros(z) \o d
  OBVIOUS
<1>6. Convert(s, a, b) = c
  BY <1>1, <1>3, <1>4, <1>5 DEF Convert
<1>7. c \in Seq(0 .. b - 1)
  <2>1. Zeros(z) \in Seq(0 .. b - 1)
    BY DEF Zeros
  <2>2. QED
    BY <1>5, <2>1
<1>8. d \in Seq(Nat) /\ c \in Seq(Nat)
  BY <1>7
<1>9. LeadingZeros(c) = z
  <2>1. Leads(LeadingZeros(c), c)
    BY <1>8, LeadingZerosLead
  <2>2. Leads(z, c)
    BY <1>4, <1>5, <1>8, ZerosLead
  <2>3. QED
    BY <1>8, <2>1, <2>2, LeadsOnce
<1>10. Number(c, b) = n
  BY <1>4, <1>5, <1>8, NumberZeros
<1>11. DigitsOf(n, a) = t
  BY <1>1, <1>3, DigitsOfNumber
<1>12. Convert(c, b, a) = s
  BY <1>1, <1>9, <1>10, <1>11 DEF Convert
<1>13. QED
  BY <1>6, <1>7, <1>12

-----------------------------------------------------------------------------
(* The codecs. *)

Bytes == Seq(0 .. Byte - 1)

\* What is not the bytes of a run of zeros is read as it was written.
LEMMA Base58Back ==
  ASSUME NEW bytes \in Bytes, bytes = <<>> \/ ~AllZero(bytes),
         NEW code \in EncodeBase58(bytes)
  PROVE  DecodeBase58(code) = Ok(bytes)
<1>1. Byte \in Nat /\ Byte > 1 /\ Radix \in Nat /\ Radix > 1
  BY BaseAssumption
<1>2. code = Convert(bytes, Byte, Radix)
  BY DEF EncodeBase58
<1>3. code \in Seq(0 .. Radix - 1) /\ Convert(code, Radix, Byte) = bytes
  BY <1>1, <1>2, ConvertBack DEF Bytes
<1>4. ~\E i \in DOMAIN code : code[i] >= Radix
  BY <1>1, <1>3
<1>5. QED
  BY <1>3, <1>4 DEF DecodeBase58

LEMMA Base58Typed ==
  ASSUME NEW bytes \in Bytes
  PROVE  EncodeBase58(bytes) \subseteq Seq(Nat)
<1>1. Byte \in Nat /\ Byte > 1 /\ Radix \in Nat /\ Radix > 1
  BY BaseAssumption
<1>2. Convert(bytes, Byte, Radix) \in Seq(Nat)
  <2>1. Convert(bytes, Byte, Radix) \in Seq(0 .. Radix - 1)
    BY <1>1, ConvertBack DEF Bytes
  <2>2. QED
    BY <1>1, <2>1
<1>3. \A n \in 0 .. RunOn : Zeros(Len(bytes) + n) \in Seq(Nat)
  <2>1. SUFFICES ASSUME NEW n \in 0 .. RunOn PROVE Zeros(Len(bytes) + n) \in Seq(Nat)
    OBVIOUS
  <2>2. n \in Nat /\ Len(bytes) \in Nat
    BY DEF Bytes
  <2>3. QED
    BY <2>2 DEF Zeros
<1>4. QED
  BY <1>2, <1>3 DEF EncodeBase58

LEMMA Base58CheckBack ==
  ASSUME NEW bytes \in Bytes, Checksum(bytes) \in Bytes, Len(Checksum(bytes)) = CheckSize,
         bytes \o Checksum(bytes) = <<>> \/ ~AllZero(bytes \o Checksum(bytes)),
         NEW code \in EncodeBase58Check(bytes)
  PROVE  DecodeBase58Check(code) = Ok(bytes)
<1>1. PICK sum \in Bytes : sum = Checksum(bytes) /\ Len(sum) = CheckSize
  OBVIOUS
<1>2. PICK all : all = bytes \o sum
  OBVIOUS
<1>3. CheckSize \in Nat /\ Byte \in Nat
  BY BaseAssumption
<1>4. /\ all \in Bytes /\ Len(all) = Len(bytes) + CheckSize /\ Len(bytes) \in Nat
      /\ \A i \in 1 .. Len(bytes) : all[i] = bytes[i]
      /\ \A i \in 1 .. CheckSize : all[Len(bytes) + i] = sum[i]
  BY <1>1, <1>2, Joined, JoinedAt DEF Bytes
<1>5. DecodeBase58(code) = Ok(all)
  BY <1>1, <1>2, <1>4, Base58Back DEF EncodeBase58Check
<1>6. Len(all) - CheckSize = Len(bytes) /\ ~(Len(all) < CheckSize)
  BY <1>3, <1>4
<1>7. SubSeq(all, 1, Len(bytes)) = bytes
  BY <1>4 DEF Bytes
<1>8. SubSeq(all, Len(bytes) + 1, Len(all)) = sum
  <2>1. PICK n \in Nat : n = Len(bytes) /\ Len(all) = n + CheckSize
    BY <1>4
  <2>2. all \in Seq(0 .. Byte - 1) /\ n + CheckSize <= Len(all)
    BY <1>3, <1>4, <2>1 DEF Bytes
  <2>3. PICK u \in Seq(0 .. Byte - 1) : PartIn(u, all, n, CheckSize)
    BY <1>3, <2>2, PartIs
  <2>4. Len(u) = CheckSize /\ \A i \in 1 .. CheckSize : u[i] = sum[i]
    BY <1>4, <2>1, <2>3 DEF PartIn
  <2>5. u = sum
    BY <1>1, <1>3, <2>4 DEF Bytes
  <2>6. u = SubSeq(all, n + 1, n + CheckSize)
    BY <2>3 DEF PartIn
  <2>7. QED
    BY <2>1, <2>5, <2>6
<1>9. QED
  <2>1. DecodeBase58(code).status = "ok" /\ DecodeBase58(code).bytes = all
    BY <1>5 DEF Ok
  <2>2. QED
    BY <1>1, <1>6, <1>7, <1>8, <2>1 DEF DecodeBase58Check

LEMMA HexBack ==
  ASSUME NEW bytes \in Bytes
  PROVE  DecodeHex(EncodeHex(bytes)) = Ok(bytes)
<1>1. PICK L \in Nat : L = Len(bytes) /\ DOMAIN bytes = 1 .. L
  BY DEF Bytes
<1>0. \A j \in 1 .. L : bytes[j] \in 0 .. Byte - 1
  <2>1. Byte \in Nat
    BY BaseAssumption
  <2>2. QED
    BY <1>1, <2>1 DEF Bytes
<1>2. Nibble \in Nat /\ Nibble * Nibble = Byte /\ Byte \in Nat /\ Byte > 1
  BY BaseAssumption
<1>3. Nibble > 0
  BY <1>2
<1>4. ASSUME NEW x \in 0 .. Byte - 1
      PROVE  \E q \in 0 .. Nibble - 1, d \in 0 .. Nibble - 1 :
               q = x \div Nibble /\ d = x % Nibble /\ q * Nibble + d = x
  <2>1. PICK q \in Nat, d \in 0 .. Nibble - 1 : q = x \div Nibble /\ d = x % Nibble
    BY <1>2, <1>3
  <2>2. PICK p \in Int : p = q * Nibble /\ p = Nibble * q
    BY <1>2
  <2>3. x % Nibble = x - Nibble * (x \div Nibble)
    BY <1>2, <1>3
  <2>4. d = x - p
    BY <2>1, <2>2, <2>3, Zenon
  <2>5. p + d = x
    BY <2>2, <2>4
  <2>6. q < Nibble
    <3>1. SUFFICES ASSUME q >= Nibble PROVE FALSE
      BY <1>2
    <3>2. q * Nibble >= Nibble * Nibble
      BY <1>2, <3>1
    <3>3. QED
      BY <1>2, <2>2, <2>5, <3>2
  <2>7. q * Nibble + d = x
    BY <2>2, <2>5
  <2>8. QED
    <3>1. q \in 0 .. Nibble - 1
      BY <1>2, <2>6
    <3>2. QED
      BY <2>1, <2>7, <3>1
<1>5. PICK h : h = EncodeHex(bytes)
  OBVIOUS
<1>6. h = [i \in 1 .. 2 * L |-> IF i % 2 = 1 THEN bytes[(i + 1) \div 2] \div Nibble
                                ELSE bytes[(i + 1) \div 2] % Nibble]
  BY <1>1, <1>5 DEF EncodeHex
<1>7. ASSUME NEW i \in 1 .. 2 * L
      PROVE  h[i] \in 0 .. Nibble - 1
  <2>1. (i + 1) \div 2 \in 1 .. L
    OBVIOUS
  <2>2. PICK x \in 0 .. Byte - 1 : x = bytes[(i + 1) \div 2]
    BY <1>0, <2>1, Zenon
  <2>3. PICK q \in 0 .. Nibble - 1, d \in 0 .. Nibble - 1 :
          q = x \div Nibble /\ d = x % Nibble
    BY <1>4
  <2>4. h[i] = q \/ h[i] = d
    BY <1>6, <2>2, <2>3
  <2>5. QED
    BY <2>4
<1>8. h \in Seq(0 .. Nibble - 1) /\ Len(h) = 2 * L /\ DOMAIN h = 1 .. 2 * L
  BY <1>6, <1>7
<1>9. Len(h) % 2 = 0 /\ Len(h) \div 2 = L
  BY <1>8
<1>10. ~\E i \in DOMAIN h : h[i] >= 2 * Nibble
  BY <1>2, <1>3, <1>7, <1>8
<1>11. ASSUME NEW i \in 1 .. L
       PROVE  DecodeHexChar(h[2 * i - 1]) * Nibble + DecodeHexChar(h[2 * i]) = bytes[i]
  <2>1. PICK x \in 0 .. Byte - 1 : x = bytes[i]
    BY <1>0
  <2>2. /\ 2 * i - 1 \in 1 .. 2 * L /\ (2 * i - 1) % 2 = 1 /\ (2 * i - 1 + 1) \div 2 = i
        /\ 2 * i \in 1 .. 2 * L /\ (2 * i) % 2 = 0 /\ (2 * i + 1) \div 2 = i
    OBVIOUS
  <2>3. PICK q \in 0 .. Nibble - 1, d \in 0 .. Nibble - 1 :
          q = x \div Nibble /\ d = x % Nibble /\ q * Nibble + d = x
    BY <1>4
  <2>4. h[2 * i - 1] = q /\ h[2 * i] = d
    BY <1>6, <2>1, <2>2, <2>3
  <2>5. q % Nibble = q /\ d % Nibble = d
    BY <1>2, <1>3
  <2>6. QED
    BY <2>1, <2>3, <2>4, <2>5 DEF DecodeHexChar
<1>12. [i \in 1 .. L |-> DecodeHexChar(h[2 * i - 1]) * Nibble + DecodeHexChar(h[2 * i])] = bytes
  <2>1. bytes = [i \in 1 .. L |-> bytes[i]]
    BY <1>1 DEF Bytes
  <2>2. QED
    BY <1>11, <2>1
<1>13. QED
  BY <1>5, <1>9, <1>10, <1>12 DEF DecodeHex

-----------------------------------------------------------------------------
(* Bits. *)

LEMMA Powers ==
  /\ 2 ^ 0 = 1 /\ 2 ^ 1 = 2 /\ 2 ^ 2 = 4 /\ 2 ^ 3 = 8 /\ 2 ^ 4 = 16
  /\ 2 ^ 5 = 32 /\ 2 ^ 6 = 64 /\ 2 ^ 7 = 128
OBVIOUS

LEMMA SumOfFive ==
  ASSUME NEW s \in Seq(Int), Len(s) = 5
  PROVE  SumSeq(s) = s[1] + s[2] + s[3] + s[4] + s[5]
<1>1. PICK g \in [0 .. 5 -> Int] :
        /\ g[0] = 0 /\ g[5] = SumSeq(s)
        /\ \A i \in 1 .. 5 : g[i] = g[i - 1] + s[i]
  BY SumSteps
<1>2. /\ g[1] = g[0] + s[1] /\ g[2] = g[1] + s[2] /\ g[3] = g[2] + s[3]
      /\ g[4] = g[3] + s[4] /\ g[5] = g[4] + s[5]
  BY <1>1
<1>3. \A i \in 1 .. 5 : s[i] \in Int
  <2>1. \A i \in 1 .. Len(s) : s[i] \in Int
    BY ElementOfSeq
  <2>2. QED
    BY <2>1
<1>4. QED
  BY <1>1, <1>2, <1>3

LEMMA SumOfEight ==
  ASSUME NEW s \in Seq(Int), Len(s) = 8
  PROVE  SumSeq(s) = s[1] + s[2] + s[3] + s[4] + s[5] + s[6] + s[7] + s[8]
<1>1. PICK g \in [0 .. 8 -> Int] :
        /\ g[0] = 0 /\ g[8] = SumSeq(s)
        /\ \A i \in 1 .. 8 : g[i] = g[i - 1] + s[i]
  BY SumSteps
<1>2. /\ g[1] = g[0] + s[1] /\ g[2] = g[1] + s[2] /\ g[3] = g[2] + s[3]
      /\ g[4] = g[3] + s[4] /\ g[5] = g[4] + s[5] /\ g[6] = g[5] + s[6]
      /\ g[7] = g[6] + s[7] /\ g[8] = g[7] + s[8]
  BY <1>1
<1>3. \A i \in 1 .. 8 : s[i] \in Int
  <2>1. \A i \in 1 .. Len(s) : s[i] \in Int
    BY ElementOfSeq
  <2>2. QED
    BY <2>1
<1>4. QED
  BY <1>1, <1>2, <1>3

LEMMA BitBack ==
  ASSUME NEW m \in Nat, NEW x \in 0 .. 1, NEW n, n = m * 2 + x
  PROVE  n \div 2 = m /\ n % 2 = x
OBVIOUS

\* The number of up to five bits, and the bits of that number.
LEMMA FiveBits ==
  ASSUME NEW e \in [0 .. 4 -> {0, 1}], NEW n,
         n = e[0] + 2 * e[1] + 4 * e[2] + 8 * e[3] + 16 * e[4]
  PROVE  n \in 0 .. 31 /\ \A i \in 0 .. 4 : (n \div 2 ^ i) % 2 = e[i]
<1>1. PICK a \in {0, 1}, b \in {0, 1}, c \in {0, 1}, d \in {0, 1}, f \in {0, 1} :
        a = e[0] /\ b = e[1] /\ c = e[2] /\ d = e[3] /\ f = e[4]
  OBVIOUS
<1>2. n = a + 2 * b + 4 * c + 8 * d + 16 * f
  BY <1>1
<1>3. n \in 0 .. 31
  BY <1>2
<1>4. /\ n % 2 = a /\ (n \div 2) % 2 = b /\ (n \div 4) % 2 = c
      /\ (n \div 8) % 2 = d /\ (n \div 16) % 2 = f /\ n \div 1 = n
  <2>1. /\ n = 2 * (b + 2 * c + 4 * d + 8 * f) + a
        /\ n = 4 * (c + 2 * d + 4 * f) + (a + 2 * b)
        /\ n = 8 * (d + 2 * f) + (a + 2 * b + 4 * c)
        /\ n = 16 * f + (a + 2 * b + 4 * c + 8 * d)
    BY <1>2
  <2>2. n % 2 = a /\ n \div 2 = b + 2 * c + 4 * d + 8 * f
    <3>1. PICK m \in Nat, x \in 0 .. 1 : m = b + 2 * c + 4 * d + 8 * f /\ x = a
      OBVIOUS
    <3>2. n = m * 2 + x
      BY <2>1, <3>1
    <3>3. n \div 2 = m /\ n % 2 = x
      BY <3>2, BitBack, Zenon
    <3>4. QED
      BY <3>1, <3>3
  <2>3. n \div 4 = c + 2 * d + 4 * f
    <3>1. PICK m \in Nat, x \in 0 .. 3 : m = c + 2 * d + 4 * f /\ x = a + 2 * b
      OBVIOUS
    <3>2. n = m * 4 + x
      BY <2>1, <3>1
    <3>3. n \div 4 = m
      BY <3>2, DividedBack
    <3>4. QED
      BY <3>1, <3>3
  <2>4. n \div 8 = d + 2 * f
    <3>1. PICK m \in Nat, x \in 0 .. 7 : m = d + 2 * f /\ x = a + 2 * b + 4 * c
      OBVIOUS
    <3>2. n = m * 8 + x
      BY <2>1, <3>1
    <3>3. QED
      BY <3>1, <3>2, DividedBack
  <2>5. n \div 16 = f
    <3>1. PICK m \in Nat, x \in 0 .. 15 : m = f /\ x = a + 2 * b + 4 * c + 8 * d
      OBVIOUS
    <3>2. n = m * 16 + x
      BY <2>1, <3>1
    <3>3. QED
      BY <3>1, <3>2, DividedBack
  <2>6. /\ (b + 2 * c + 4 * d + 8 * f) % 2 = b /\ (c + 2 * d + 4 * f) % 2 = c
        /\ (d + 2 * f) % 2 = d /\ f % 2 = f
    OBVIOUS
  <2>7. n \div 1 = n
    BY <1>3
  <2>8. QED
    BY <2>2, <2>3, <2>4, <2>5, <2>6, <2>7
<1>5. ASSUME NEW i \in 0 .. 4 PROVE (n \div 2 ^ i) % 2 = e[i]
  <2>1. i = 0 \/ i = 1 \/ i = 2 \/ i = 3 \/ i = 4
    OBVIOUS
  <2>2. CASE i = 0
    BY <1>1, <1>4, <2>2, Powers
  <2>3. CASE i = 1
    BY <1>1, <1>4, <2>3, Powers
  <2>4. CASE i = 2
    BY <1>1, <1>4, <2>4, Powers
  <2>5. CASE i = 3
    BY <1>1, <1>4, <2>5, Powers
  <2>6. CASE i = 4
    BY <1>1, <1>4, <2>6, Powers
  <2>7. QED
    BY <2>1, <2>2, <2>3, <2>4, <2>5, <2>6
<1>6. QED
  BY <1>3, <1>5

LEMMA BitsOfFrom ==
  ASSUME NEW B \in SUBSET (0 .. 4)
  PROVE  FromBits(B) \in 0 .. 31 /\ Bits(FromBits(B), 5) = B
<1>1. PICK e : e = [i \in 0 .. 4 |-> IF i \in B THEN 1 ELSE 0]
  OBVIOUS
<1>2. e \in [0 .. 4 -> {0, 1}] /\ \A i \in 0 .. 4 : (e[i] = 1) <=> i \in B
  BY <1>1
<1>3. PICK s : s = [i \in 1 .. 5 |-> IF i - 1 \in B THEN 2 ^ (i - 1) ELSE 0]
  OBVIOUS
<1>4. /\ s[1] = e[0] /\ s[2] = 2 * e[1] /\ s[3] = 4 * e[2] /\ s[4] = 8 * e[3]
      /\ s[5] = 16 * e[4]
  <2>1. /\ s[1] = IF 0 \in B THEN 2 ^ 0 ELSE 0
        /\ s[2] = IF 1 \in B THEN 2 ^ 1 ELSE 0
        /\ s[3] = IF 2 \in B THEN 2 ^ 2 ELSE 0
        /\ s[4] = IF 3 \in B THEN 2 ^ 3 ELSE 0
        /\ s[5] = IF 4 \in B THEN 2 ^ 4 ELSE 0
    BY <1>3
  <2>2. QED
    BY <1>1, <2>1, Powers
<1>5. s \in Seq(Int) /\ Len(s) = 5
  <2>1. \A i \in 1 .. 5 : i = 1 \/ i = 2 \/ i = 3 \/ i = 4 \/ i = 5
    OBVIOUS
  <2>2. e[0] \in Int /\ e[1] \in Int /\ e[2] \in Int /\ e[3] \in Int /\ e[4] \in Int
    BY <1>2
  <2>3. \A i \in 1 .. 5 : s[i] \in Int
    BY <1>4, <2>1, <2>2
  <2>4. s = [i \in 1 .. 5 |-> s[i]]
    BY <1>3
  <2>5. s \in [1 .. 5 -> Int]
    BY <2>3, <2>4
  <2>6. QED
    BY <2>5, Tabulated
<1>6. FromBits(B) = e[0] + 2 * e[1] + 4 * e[2] + 8 * e[3] + 16 * e[4]
  BY <1>3, <1>4, <1>5, SumOfFive DEF FromBits
<1>7. FromBits(B) \in 0 .. 31 /\ \A i \in 0 .. 4 : (FromBits(B) \div 2 ^ i) % 2 = e[i]
  BY <1>2, <1>6, FiveBits
<1>8. PICK n : n = FromBits(B)
  OBVIOUS
<1>9. \A i \in 0 .. 4 : ((n \div 2 ^ i) % 2 = 1) <=> i \in B
  BY <1>2, <1>7, <1>8, Zenon
<1>10. Bits(n, 5) = {i \in 0 .. 4 : (n \div 2 ^ i) % 2 = 1}
  BY DEF Bits
<1>11. Bits(n, 5) = B
  BY <1>9, <1>10, Zenon
<1>12. QED
  BY <1>7, <1>8, <1>11

LEMMA BitsOfZero == Bits(0, 5) = {}
<1>1. PICK e : e = [i \in 0 .. 4 |-> 0]
  OBVIOUS
<1>2. e \in [0 .. 4 -> {0, 1}] /\ 0 = e[0] + 2 * e[1] + 4 * e[2] + 8 * e[3] + 16 * e[4]
  BY <1>1
<1>3. \A i \in 0 .. 4 : (0 \div 2 ^ i) % 2 = e[i]
  BY <1>2, FiveBits
<1>4. \A i \in 0 .. 4 : (0 \div 2 ^ i) % 2 # 1
  <2>1. \A i \in 0 .. 4 : e[i] # 1
    BY <1>1
  <2>2. QED
    BY <1>3, <2>1, Zenon
<1>5. Bits(0, 5) = {i \in 0 .. 4 : (0 \div 2 ^ i) % 2 = 1}
  BY DEF Bits
<1>6. QED
  BY <1>4, <1>5, Zenon

-----------------------------------------------------------------------------
(* The checksum. *)

Odd(S) == Cardinality(S) % 2 = 1

LEMMA CardinalityApart ==
  ASSUME NEW A, NEW B, IsFiniteSet(A), IsFiniteSet(B), A \cap B = {}
  PROVE  Cardinality(A \cup B) = Cardinality(A) + Cardinality(B)
<1>1. Cardinality(A) \in Nat /\ Cardinality(B) \in Nat /\ Cardinality({}) = 0
  BY FS_CardinalityType, FS_EmptySet
<1>2. Cardinality(A \cup B) = Cardinality(A) + Cardinality(B) - Cardinality(A \cap B)
  BY FS_Union
<1>3. Cardinality(A \cap B) = 0
  BY <1>1, Zenon
<1>4. QED
  BY <1>1, <1>2, <1>3

\* The exclusive or of sets, bit by bit.
LEMMA OddXor ==
  ASSUME NEW A, NEW B, IsFiniteSet(A), IsFiniteSet(B)
  PROVE  Odd(Xor(A, B)) <=> ~(Odd(A) <=> Odd(B))
<1>1. IsFiniteSet(A \ B) /\ IsFiniteSet(B \ A) /\ IsFiniteSet(A \cap B)
  BY FS_Difference, FS_Subset
<1>2. /\ Cardinality(A \ B) \in Nat /\ Cardinality(B \ A) \in Nat
      /\ Cardinality(A \cap B) \in Nat
  BY <1>1, FS_CardinalityType
<1>3. Cardinality(A) = Cardinality(A \ B) + Cardinality(A \cap B)
  <2>1. A = (A \ B) \cup (A \cap B) /\ (A \ B) \cap (A \cap B) = {}
    OBVIOUS
  <2>2. QED
    BY <1>1, <2>1, CardinalityApart, Zenon
<1>4. Cardinality(B) = Cardinality(B \ A) + Cardinality(A \cap B)
  <2>1. B = (B \ A) \cup (A \cap B) /\ (B \ A) \cap (A \cap B) = {}
    OBVIOUS
  <2>2. QED
    BY <1>1, <2>1, CardinalityApart, Zenon
<1>5. Cardinality(Xor(A, B)) = Cardinality(A \ B) + Cardinality(B \ A)
  <2>1. (A \ B) \cap (B \ A) = {}
    OBVIOUS
  <2>2. QED
    BY <1>1, <2>1, CardinalityApart, Zenon DEF Xor
<1>6. PICK x \in Nat, y \in Nat, z \in Nat :
        x = Cardinality(A \ B) /\ y = Cardinality(B \ A) /\ z = Cardinality(A \cap B)
  BY <1>2
<1>7. ((x + y) % 2 = 1) <=> ~(((x + z) % 2 = 1) <=> ((y + z) % 2 = 1))
  OBVIOUS
<1>8. QED
  BY <1>3, <1>4, <1>5, <1>6, <1>7 DEF Odd

\* The topmost bits that turn over bit i.
Calls(pre, i) == {j \in pre \cap (25 .. 29) : i \in Generator[j - 24]}

LEMMA StepBits ==
  ASSUME NEW pre
  PROVE  /\ bech32_polymod_step(pre) \in SUBSET (0 .. 29)
         /\ \A i \in 0 .. 29 : (i \in bech32_polymod_step(pre)) <=>
                                 ~((i - 5 \in pre) <=> Odd(Calls(pre, i)))
BY DEF bech32_polymod_step, Odd, Calls

\* A step of the exclusive or of two words is that of their steps.
LEMMA StepXor ==
  ASSUME NEW v, NEW w
  PROVE  bech32_polymod_step(Xor(v, w)) = Xor(bech32_polymod_step(v), bech32_polymod_step(w))
<1>1. ASSUME NEW i \in 0 .. 29
      PROVE  i \in bech32_polymod_step(Xor(v, w)) <=>
               i \in Xor(bech32_polymod_step(v), bech32_polymod_step(w))
  <2>1. Calls(Xor(v, w), i) = Xor(Calls(v, i), Calls(w, i))
    BY DEF Calls, Xor
  <2>2. IsFiniteSet(Calls(v, i)) /\ IsFiniteSet(Calls(w, i))
    <3>1. IsFiniteSet(25 .. 29)
      <4>1. 25 \in Int /\ 29 \in Int
        OBVIOUS
      <4>2. QED
        BY <4>1, FS_Interval, Zenon
    <3>2. Calls(v, i) \in SUBSET (25 .. 29) /\ Calls(w, i) \in SUBSET (25 .. 29)
      BY DEF Calls
    <3>3. QED
      BY <3>1, <3>2, FS_Subset
  <2>3. Odd(Calls(Xor(v, w), i)) <=> ~(Odd(Calls(v, i)) <=> Odd(Calls(w, i)))
    BY <2>1, <2>2, OddXor
  <2>4. (i - 5 \in Xor(v, w)) <=> ~((i - 5 \in v) <=> (i - 5 \in w))
    BY DEF Xor
  <2>5. /\ (i \in bech32_polymod_step(Xor(v, w))) <=>
              ~((i - 5 \in Xor(v, w)) <=> Odd(Calls(Xor(v, w), i)))
        /\ (i \in bech32_polymod_step(v)) <=> ~((i - 5 \in v) <=> Odd(Calls(v, i)))
        /\ (i \in bech32_polymod_step(w)) <=> ~((i - 5 \in w) <=> Odd(Calls(w, i)))
    BY StepBits
  <2>6. (i \in bech32_polymod_step(Xor(v, w))) <=>
          ~((i \in bech32_polymod_step(v)) <=> (i \in bech32_polymod_step(w)))
    BY <2>3, <2>4, <2>5, Zenon
  <2>7. QED
    BY <2>6 DEF Xor
<1>2. /\ bech32_polymod_step(Xor(v, w)) \in SUBSET (0 .. 29)
      /\ bech32_polymod_step(v) \in SUBSET (0 .. 29)
      /\ bech32_polymod_step(w) \in SUBSET (0 .. 29)
  BY StepBits
<1>3. Xor(bech32_polymod_step(v), bech32_polymod_step(w)) \in SUBSET (0 .. 29)
  BY <1>2 DEF Xor
<1>4. QED
  BY <1>1, <1>2, <1>3

\* As long as no bit is at the top, a step moves the word up.
LEMMA StepUp ==
  ASSUME NEW w \in SUBSET (0 .. 24)
  PROVE  bech32_polymod_step(w) = Shift(w, 5)
<1>1. ASSUME NEW i \in 0 .. 29
      PROVE  (i \in bech32_polymod_step(w)) <=> i - 5 \in w
  <2>1. Calls(w, i) = {}
    BY DEF Calls
  <2>2. ~Odd(Calls(w, i))
    BY <2>1, FS_EmptySet DEF Odd
  <2>3. (i \in bech32_polymod_step(w)) <=> ~((i - 5 \in w) <=> Odd(Calls(w, i)))
    BY StepBits
  <2>4. QED
    BY <2>2, <2>3, Zenon
<1>2. bech32_polymod_step(w) \in SUBSET (0 .. 29)
  BY StepBits
<1>3. Shift(w, 5) \in SUBSET (0 .. 29)
  BY DEF Shift
<1>4. \A i \in 0 .. 29 : i \in Shift(w, 5) <=> i - 5 \in w
  BY DEF Shift
<1>5. QED
  BY <1>1, <1>2, <1>3, <1>4

Word == SUBSET Int

\* g holds the word after each prefix of v.
Absorbs(g, chk, v) ==
  /\ g \in [0 .. Len(v) -> Word]
  /\ g[0] = chk /\ g[Len(v)] = Absorb(chk, v)
  /\ \A i \in 1 .. Len(v) : g[i] = Xor(bech32_polymod_step(g[i - 1]), v[i])

LEMMA StepWord ==
  ASSUME NEW w, NEW x \in Word
  PROVE  Xor(bech32_polymod_step(w), x) \in Word
<1>1. bech32_polymod_step(w) \in SUBSET (0 .. 29)
  BY StepBits
<1>2. \A y \in 0 .. 29 : y \in Int
  OBVIOUS
<1>3. QED
  BY <1>1, <1>2, Zenon DEF Xor, Word

LEMMA AbsorbSteps ==
  ASSUME NEW chk \in Word, NEW v \in Seq(Word)
  PROVE  \E g : Absorbs(g, chk, v)
<1>1. PICK L \in Nat : L = Len(v)
  OBVIOUS
<1>2. \A i \in 1 .. L : v[i] \in Word
  BY <1>1, ElementOfSeq
<1>3. PICK step : step = [i \in 1 .. L |-> [w \in Word |-> Xor(bech32_polymod_step(w), v[i])]]
  OBVIOUS
<1>4. Steps(Word, chk, step, L)
  <2>1. step \in [1 .. L -> [Word -> Word]]
    BY <1>2, <1>3, StepWord, Zenon
  <2>2. QED
    BY <2>1, Zenon DEF Steps
<1>5. PICK g \in [0 .. L -> Word] : g[0] = chk /\ \A i \in 1 .. L : g[i] = step[i][g[i - 1]]
  <2>1. PICK Y, base, M : Y = Word /\ base = chk /\ M = L
    OBVIOUS
  <2>2. Steps(Y, base, step, M)
    BY <1>4, <2>1
  <2>3. \E g \in [0 .. M -> Y] : g[0] = base /\ \A i \in 1 .. M : g[i] = step[i][g[i - 1]]
    BY <2>2, RecursionExists
  <2>4. QED
    BY <2>1, <2>3
<1>6. ASSUME NEW i \in 1 .. L PROVE g[i] = Xor(bech32_polymod_step(g[i - 1]), v[i])
  <2>1. i - 1 \in 0 .. L
    OBVIOUS
  <2>2. g[i - 1] \in Word
    BY <2>1, Zenon
  <2>3. QED
    BY <1>3, <1>5, <2>2, Zenon
<1> DEFINE Is(f) == f = [i \in 0 .. Len(v) |->
                            IF i = 0 THEN chk
                            ELSE UNION {Xor(bech32_polymod_step(pre), v[i]) : pre \in {f[i - 1]}}]
           F == CHOOSE f : Is(f)
<1>7. \A pre, x : UNION {Xor(bech32_polymod_step(w), x) : w \in {pre}} = Xor(bech32_polymod_step(pre), x)
  OBVIOUS
<1>8. Is(g)
  <2>1. \A i \in 0 .. L : i # 0 => i \in 1 .. L
    OBVIOUS
  <2>2. \A i \in 0 .. L : g[i] = IF i = 0 THEN chk
                                 ELSE Xor(bech32_polymod_step(g[i - 1]), v[i])
    BY <1>5, <1>6, <2>1, Zenon
  <2>3. \A i \in 0 .. L : g[i] = IF i = 0 THEN chk
          ELSE UNION {Xor(bech32_polymod_step(w), v[i]) : w \in {g[i - 1]}}
    <3>1. SUFFICES ASSUME NEW i \in 0 .. L, i # 0
                   PROVE  g[i] = UNION {Xor(bech32_polymod_step(w), v[i]) : w \in {g[i - 1]}}
      BY <2>2, Zenon
    <3>2. g[i] = Xor(bech32_polymod_step(g[i - 1]), v[i])
      BY <2>2, <3>1, Zenon
    <3>3. QED
      BY <1>7, <3>2
  <2>4. g = [i \in 0 .. L |-> g[i]]
    OBVIOUS
  <2>5. QED
    BY <1>1, <2>3, <2>4, Zenon
<1>9. Is(F)
  <2> HIDE DEF Is
  <2>1. QED
    BY <1>8
<1>10. Absorb(chk, v) = F[Len(v)]
  BY DEF Absorb
<1> HIDE DEF F
<1>11. \A i \in 0 .. L : F[i] = IF i = 0 THEN chk ELSE Xor(bech32_polymod_step(F[i - 1]), v[i])
  BY <1>1, <1>7, <1>9, Zenon
<1> DEFINE S == {i \in 0 .. L : F[i] = g[i]}
<1>12. 0 \in S
  BY <1>5, <1>11
<1>13. ASSUME NEW i \in 1 .. L, i - 1 \in S PROVE i \in S
  <2>1. i \in 0 .. L /\ i # 0
    OBVIOUS
  <2>2. F[i] = Xor(bech32_polymod_step(F[i - 1]), v[i])
    BY <1>11, <2>1, Zenon
  <2>3. F[i - 1] = g[i - 1]
    BY <1>13
  <2>4. F[i] = g[i]
    BY <1>6, <2>2, <2>3, Zenon
  <2>5. QED
    BY <2>1, <2>4
<1>14. L \in S
  <2> HIDE DEF S
  <2>1. \A i \in 0 .. L : i \in S
    BY <1>12, <1>13, PrefixInduction
  <2>2. QED
    BY <2>1
<1>15. g[L] = Absorb(chk, v)
  BY <1>1, <1>10, <1>14
<1>16. Absorbs(g, chk, v)
  BY <1>1, <1>5, <1>6, <1>15, Zenon DEF Absorbs
<1>17. QED
  BY <1>16

\* What goes the same way ends with the same word.
LEMMA AbsorbOf ==
  ASSUME NEW chk \in Word, NEW v \in Seq(Word), NEW h, h[0] = chk,
         \A i \in 1 .. Len(v) : h[i] = Xor(bech32_polymod_step(h[i - 1]), v[i])
  PROVE  Absorb(chk, v) = h[Len(v)]
<1>1. PICK g : Absorbs(g, chk, v)
  BY AbsorbSteps
<1>2. PICK L \in Nat : L = Len(v)
  OBVIOUS
<1>3. /\ g[0] = h[0] /\ g[L] = Absorb(chk, v)
      /\ \A i \in 1 .. L : g[i] = Xor(bech32_polymod_step(g[i - 1]), v[i])
  BY <1>1, <1>2 DEF Absorbs
<1> DEFINE S == {i \in 0 .. L : g[i] = h[i]}
<1>4. 0 \in S
  BY <1>3
<1>5. ASSUME NEW i \in 1 .. L, i - 1 \in S PROVE i \in S
  <2>1. g[i - 1] = h[i - 1]
    BY <1>5
  <2>2. h[i] = Xor(bech32_polymod_step(h[i - 1]), v[i])
    BY <1>2
  <2>3. g[i] = h[i]
    BY <1>3, <2>1, <2>2, Zenon
  <2>4. i \in 0 .. L
    OBVIOUS
  <2>5. QED
    BY <2>3, <2>4
<1>6. L \in S
  <2> HIDE DEF S
  <2>1. \A i \in 0 .. L : i \in S
    BY <1>4, <1>5, PrefixInduction
  <2>2. QED
    BY <2>1
<1>7. QED
  BY <1>2, <1>3, <1>6

LEMMA AbsorbType ==
  ASSUME NEW chk \in Word, NEW v \in Seq(Word)
  PROVE  Absorb(chk, v) \in Word
<1>1. PICK g : Absorbs(g, chk, v)
  BY AbsorbSteps
<1>2. Len(v) \in 0 .. Len(v)
  OBVIOUS
<1>3. QED
  BY <1>1, <1>2, Zenon DEF Absorbs

LEMMA AbsorbConcat ==
  ASSUME NEW chk \in Word, NEW s \in Seq(Word), NEW t \in Seq(Word)
  PROVE  Absorb(chk, s \o t) = Absorb(Absorb(chk, s), t)
<1>1. PICK f : Absorbs(f, chk, s)
  BY AbsorbSteps
<1>2. PICK mid \in Word : mid = Absorb(chk, s)
  BY AbsorbType
<1>3. PICK g : Absorbs(g, mid, t)
  BY AbsorbSteps
<1>4. PICK L \in Nat, M \in Nat : L = Len(s) /\ M = Len(t)
  OBVIOUS
<1>5. PICK v : v = s \o t
  OBVIOUS
<1>6. /\ v \in Seq(Word) /\ Len(v) = L + M
      /\ \A i \in 1 .. L : v[i] = s[i]
      /\ \A i \in 1 .. M : v[L + i] = t[i]
  BY <1>4, <1>5, Joined, JoinedAt
<1>7. /\ f[0] = chk /\ f[L] = mid
      /\ \A i \in 1 .. L : f[i] = Xor(bech32_polymod_step(f[i - 1]), s[i])
  BY <1>1, <1>2, <1>4 DEF Absorbs
<1>8. /\ g[0] = mid /\ g[M] = Absorb(mid, t)
      /\ \A i \in 1 .. M : g[i] = Xor(bech32_polymod_step(g[i - 1]), t[i])
  BY <1>3, <1>4 DEF Absorbs
<1>9. PICK h : h = [i \in 0 .. L + M |-> IF i <= L THEN f[i] ELSE g[i - L]]
  OBVIOUS
<1>10. \A i \in 0 .. M : h[L + i] = g[i]
  <2>1. SUFFICES ASSUME NEW i \in 0 .. M PROVE h[L + i] = g[i]
    OBVIOUS
  <2>2. CASE i = 0
    BY <1>7, <1>8, <1>9, <2>2
  <2>3. CASE i # 0
    <3>1. L + i \in 0 .. L + M /\ ~(L + i <= L) /\ L + i - L = i
      BY <2>3
    <3>2. QED
      BY <1>9, <3>1
  <2>4. QED
    BY <2>2, <2>3
<1>11. h[0] = chk
  BY <1>7, <1>9
<1>12. ASSUME NEW i \in 1 .. L + M
       PROVE  h[i] = Xor(bech32_polymod_step(h[i - 1]), v[i])
  <2>1. CASE i <= L
    <3>1. h[i] = f[i] /\ h[i - 1] = f[i - 1] /\ i \in 1 .. L
      BY <1>9, <2>1
    <3>2. QED
      BY <1>6, <1>7, <3>1, Zenon
  <2>2. CASE i > L
    <3>1. PICK j \in 1 .. M : i = L + j /\ i - 1 = L + (j - 1)
      <4>1. i - L \in 1 .. M /\ i = L + (i - L) /\ i - 1 = L + (i - L - 1)
        BY <2>2
      <4>2. QED
        BY <4>1
    <3>2. j \in 0 .. M /\ j - 1 \in 0 .. M
      OBVIOUS
    <3>3. h[i] = g[j] /\ h[i - 1] = g[j - 1]
      BY <1>10, <3>1, <3>2, Zenon
    <3>4. v[i] = t[j]
      BY <1>6, <3>1, Zenon
    <3>5. QED
      BY <1>8, <3>3, <3>4, Zenon
  <2>3. QED
    BY <2>1, <2>2
<1>13. Absorb(chk, v) = h[Len(v)]
  <2>1. \A i \in 1 .. Len(v) : h[i] = Xor(bech32_polymod_step(h[i - 1]), v[i])
    BY <1>6, <1>12, Zenon
  <2>2. QED
    BY <1>6, <1>11, <2>1, AbsorbOf, Zenon
<1>14. h[L + M] = g[M]
  BY <1>10
<1>15. QED
  BY <1>2, <1>5, <1>6, <1>8, <1>13, <1>14, Zenon

-----------------------------------------------------------------------------
\* The bits from 5 * (6 - i) on, five of them.
Fifth(c, i) == Shift(c \cap (5 * (6 - i) .. 5 * (6 - i) + 4), 0 - 5 * (6 - i))

LEMMA FifthBits ==
  ASSUME NEW c, NEW i \in 1 .. 6
  PROVE  /\ Fifth(c, i) \in SUBSET (0 .. 4)
         /\ \A b \in 0 .. 4 : b \in Fifth(c, i) <=> b + 5 * (6 - i) \in c
BY DEF Fifth, Shift

\* The lowest bits of the word whose first groups have been taken in.
TakenIn(c, i) == {b \in 0 .. 5 * i - 1 : b + 5 * (6 - i) \in c}

LEMMA TakeIn ==
  ASSUME NEW c, NEW i \in 1 .. 6
  PROVE  Xor(bech32_polymod_step(TakenIn(c, i - 1)), Fifth(c, i)) = TakenIn(c, i)
<1>1. TakenIn(c, i - 1) \in SUBSET (0 .. 24)
  BY DEF TakenIn
<1>2. bech32_polymod_step(TakenIn(c, i - 1)) = Shift(TakenIn(c, i - 1), 5)
  BY <1>1, StepUp
<1>3. PICK u : u = Shift(TakenIn(c, i - 1), 5)
  OBVIOUS
<1>4. \A b \in Int : b \in u <=> b \in 5 .. 5 * i - 1 /\ b + 5 * (6 - i) \in c
  <2>1. SUFFICES ASSUME NEW b \in Int
                 PROVE  b \in u <=> b \in 5 .. 5 * i - 1 /\ b + 5 * (6 - i) \in c
    OBVIOUS
  <2>2. b \in u <=> b - 5 \in TakenIn(c, i - 1)
    BY <1>1, <1>3 DEF Shift
  <2>3. b - 5 \in TakenIn(c, i - 1) <=>
          b - 5 \in 0 .. 5 * (i - 1) - 1 /\ b - 5 + 5 * (6 - (i - 1)) \in c
    BY DEF TakenIn
  <2>4. b - 5 + 5 * (6 - (i - 1)) = b + 5 * (6 - i)
    OBVIOUS
  <2>5. (b - 5 \in 0 .. 5 * (i - 1) - 1) <=> b \in 5 .. 5 * i - 1
    OBVIOUS
  <2>6. QED
    BY <2>2, <2>3, <2>4, <2>5, Zenon
<1>5. u \in SUBSET Int
  BY <1>1, <1>3 DEF Shift
<1>6. \A b \in Int : b \in Fifth(c, i) <=> b \in 0 .. 4 /\ b + 5 * (6 - i) \in c
  BY FifthBits
<1>7. Fifth(c, i) \in SUBSET Int
  BY FifthBits
<1>8. \A b \in Int : b \in TakenIn(c, i) <=> b \in 0 .. 5 * i - 1 /\ b + 5 * (6 - i) \in c
  BY DEF TakenIn
<1>9. TakenIn(c, i) \in SUBSET Int
  BY DEF TakenIn
<1>10. \A b \in Int : b \in 0 .. 5 * i - 1 <=> ~(b \in 0 .. 4 <=> b \in 5 .. 5 * i - 1)
  OBVIOUS
<1>11. ASSUME NEW b \in Int PROVE b \in Xor(u, Fifth(c, i)) <=> b \in TakenIn(c, i)
  <2>1. b \in Xor(u, Fifth(c, i)) <=> ~(b \in u <=> b \in Fifth(c, i))
    BY DEF Xor
  <2>2. QED
    BY <1>4, <1>6, <1>8, <1>10, <2>1, Zenon
<1>12. Xor(u, Fifth(c, i)) \in SUBSET Int
  BY <1>5, <1>7 DEF Xor
<1>13. Xor(u, Fifth(c, i)) = TakenIn(c, i)
  BY <1>9, <1>11, <1>12, Zenon
<1>14. QED
  BY <1>2, <1>3, <1>13

\* A checksum made of the word after six empty groups turns it into 1.
LEMMA Verifies ==
  ASSUME NEW W \in Word, NEW none \in Seq(Word), NEW sum \in Seq(Word),
         Len(none) = 6, Len(sum) = 6, \A i \in 1 .. 6 : none[i] = {},
         NEW c, c = Xor(Absorb(W, none), {0}),
         \A i \in 1 .. 6 : sum[i] = Fifth(c, i)
  PROVE  Absorb(W, sum) = {0}
<1>1. PICK p : Absorbs(p, W, none)
  BY AbsorbSteps
<1>2. PICK r : Absorbs(r, W, sum)
  BY AbsorbSteps
<1>3. /\ p[0] = W /\ p[6] = Absorb(W, none)
      /\ \A i \in 1 .. 6 : p[i] = Xor(bech32_polymod_step(p[i - 1]), {})
  BY <1>1 DEF Absorbs
<1>4. /\ r[0] = W /\ r[6] = Absorb(W, sum)
      /\ \A i \in 1 .. 6 : r[i] = Xor(bech32_polymod_step(r[i - 1]), Fifth(c, i))
  BY <1>2 DEF Absorbs
<1> DEFINE S == {i \in 0 .. 6 : r[i] = Xor(p[i], TakenIn(c, i))}
<1>5. 0 \in S
  <2>1. TakenIn(c, 0) = {}
    BY DEF TakenIn
  <2>2. \A w : Xor(w, {}) = w
    BY DEF Xor
  <2>3. r[0] = Xor(p[0], TakenIn(c, 0))
    BY <1>3, <1>4, <2>1, <2>2, Zenon
  <2>4. 0 \in 0 .. 6
    OBVIOUS
  <2>5. QED
    BY <2>3, <2>4, Zenon
<1>6. ASSUME NEW i \in 1 .. 6, i - 1 \in S PROVE i \in S
  <2>1. PICK v, q : v = p[i - 1] /\ q = TakenIn(c, i - 1)
    OBVIOUS
  <2>2. r[i] = Xor(bech32_polymod_step(Xor(v, q)), Fifth(c, i))
    BY <1>4, <1>6, <2>1
  <2>3. r[i] = Xor(Xor(bech32_polymod_step(v), bech32_polymod_step(q)), Fifth(c, i))
    BY <2>2, StepXor
  <2>4. \A x, y, z : Xor(Xor(x, y), z) = Xor(Xor(x, {}), Xor(y, z))
    BY DEF Xor
  <2>5. r[i] = Xor(Xor(bech32_polymod_step(v), {}), Xor(bech32_polymod_step(q), Fifth(c, i)))
    BY <2>3, <2>4
  <2>6. Xor(bech32_polymod_step(q), Fifth(c, i)) = TakenIn(c, i)
    BY <2>1, TakeIn
  <2>7. p[i] = Xor(bech32_polymod_step(v), {})
    BY <1>3, <2>1
  <2>8. r[i] = Xor(p[i], TakenIn(c, i))
    BY <2>5, <2>6, <2>7, Zenon
  <2>9. i \in 0 .. 6
    OBVIOUS
  <2>10. QED
    BY <2>8, <2>9
<1>7. r[6] = Xor(p[6], TakenIn(c, 6))
  <2> HIDE DEF S
  <2>1. 6 \in Nat
    OBVIOUS
  <2>2. \A i \in 0 .. 6 : i \in S
    BY <1>5, <1>6, <2>1, PrefixInduction
  <2>3. 6 \in S
    BY <2>2
  <2>4. QED
    BY <2>3 DEF S
<1>8. TakenIn(c, 6) = c
  <2>1. p[6] = Xor(bech32_polymod_step(p[5]), {})
    <3>1. 6 \in 1 .. 6 /\ 6 - 1 = 5
      OBVIOUS
    <3>2. QED
      BY <1>3, <3>1
  <2>2. bech32_polymod_step(p[5]) \in SUBSET (0 .. 29)
    BY StepBits
  <2>3. p[6] \in SUBSET (0 .. 29)
    BY <2>1, <2>2 DEF Xor
  <2>4. c \in SUBSET (0 .. 29)
    BY <1>3, <2>3 DEF Xor
  <2>5. \A b \in 0 .. 29 : b \in TakenIn(c, 6) <=> b \in c
    BY DEF TakenIn
  <2>6. TakenIn(c, 6) \in SUBSET (0 .. 29)
    BY DEF TakenIn
  <2>7. QED
    BY <2>4, <2>5, <2>6
<1>9. Xor(p[6], Xor(p[6], {0})) = {0}
  BY DEF Xor
<1>10. QED
  BY <1>3, <1>4, <1>7, <1>8, <1>9

-----------------------------------------------------------------------------
(* Groups of bits. *)

\* One bit after another, from the lowest.
LEMMA Halved ==
  ASSUME NEW m \in Nat, NEW x \in 0 .. 2 * m - 1
  PROVE  \E q \in 0 .. m - 1, d \in {0, 1} : x = q * 2 + d /\ x % 2 = d
<1>1. CASE x = 0
  BY <1>1
<1>2. CASE x # 0
  <2>1. PICK q \in 0 .. x - 1, d \in 0 .. 2 - 1 :
          q = x \div 2 /\ d = x % 2 /\ x = q * 2 + d
    BY <1>2, Divided
  <2>2. q \in 0 .. m - 1 /\ d \in {0, 1}
    BY <2>1
  <2>3. QED
    BY <2>1, <2>2
<1>3. QED
  BY <1>1, <1>2

\* A byte is the sum of its bits.
LEMMA EightBits ==
  ASSUME NEW x \in 0 .. 255
  PROVE  \E d \in [0 .. 7 -> {0, 1}] :
           /\ x = 128 * d[7] + 64 * d[6] + 32 * d[5] + 16 * d[4] + 8 * d[3] + 4 * d[2]
                  + 2 * d[1] + d[0]
           /\ \A i \in 0 .. 7 : (x \div 2 ^ i) % 2 = d[i]
<1>1. PICK q1 \in 0 .. 127, d0 \in {0, 1} : x = q1 * 2 + d0 /\ x % 2 = d0
  <2>1. 128 \in Nat /\ x \in 0 .. 2 * 128 - 1 /\ 128 - 1 = 127
    OBVIOUS
  <2>2. QED
    BY <2>1, Halved
<1>2. PICK q2 \in 0 .. 63, d1 \in {0, 1} : q1 = q2 * 2 + d1 /\ q1 % 2 = d1
  <2>1. 64 \in Nat /\ q1 \in 0 .. 2 * 64 - 1 /\ 64 - 1 = 63
    OBVIOUS
  <2>2. QED
    BY <2>1, Halved
<1>3. PICK q3 \in 0 .. 31, d2 \in {0, 1} : q2 = q3 * 2 + d2 /\ q2 % 2 = d2
  <2>1. 32 \in Nat /\ q2 \in 0 .. 2 * 32 - 1 /\ 32 - 1 = 31
    OBVIOUS
  <2>2. QED
    BY <2>1, Halved
<1>4. PICK q4 \in 0 .. 15, d3 \in {0, 1} : q3 = q4 * 2 + d3 /\ q3 % 2 = d3
  <2>1. 16 \in Nat /\ q3 \in 0 .. 2 * 16 - 1 /\ 16 - 1 = 15
    OBVIOUS
  <2>2. QED
    BY <2>1, Halved
<1>5. PICK q5 \in 0 .. 7, d4 \in {0, 1} : q4 = q5 * 2 + d4 /\ q4 % 2 = d4
  <2>1. 8 \in Nat /\ q4 \in 0 .. 2 * 8 - 1 /\ 8 - 1 = 7
    OBVIOUS
  <2>2. QED
    BY <2>1, Halved
<1>6. PICK q6 \in 0 .. 3, d5 \in {0, 1} : q5 = q6 * 2 + d5 /\ q5 % 2 = d5
  <2>1. 4 \in Nat /\ q5 \in 0 .. 2 * 4 - 1 /\ 4 - 1 = 3
    OBVIOUS
  <2>2. QED
    BY <2>1, Halved
<1>7. PICK q7 \in 0 .. 1, d6 \in {0, 1} : q6 = q7 * 2 + d6 /\ q6 % 2 = d6
  <2>1. 2 \in Nat /\ q6 \in 0 .. 2 * 2 - 1 /\ 2 - 1 = 1
    OBVIOUS
  <2>2. QED
    BY <2>1, Halved
<1>8. /\ x = q1 * 2 + d0 /\ x = q2 * 4 + (2 * d1 + d0)
      /\ x = q3 * 8 + (4 * d2 + 2 * d1 + d0)
      /\ x = q4 * 16 + (8 * d3 + 4 * d2 + 2 * d1 + d0)
      /\ x = q5 * 32 + (16 * d4 + 8 * d3 + 4 * d2 + 2 * d1 + d0)
      /\ x = q6 * 64 + (32 * d5 + 16 * d4 + 8 * d3 + 4 * d2 + 2 * d1 + d0)
      /\ x = q7 * 128 + (64 * d6 + 32 * d5 + 16 * d4 + 8 * d3 + 4 * d2 + 2 * d1 + d0)
  BY <1>1, <1>2, <1>3, <1>4, <1>5, <1>6, <1>7
<1>9. x \div 2 = q1 /\ x \div 4 = q2 /\ x \div 8 = q3
  <2>1. \A y \in 0 .. 1 : (q1 * 2 + y) \div 2 = q1
    BY DividedBack
  <2>2. \A y \in 0 .. 3 : (q2 * 4 + y) \div 4 = q2
    BY DividedBack
  <2>3. \A y \in 0 .. 7 : (q3 * 8 + y) \div 8 = q3
    BY DividedBack
  <2>4. d0 \in 0 .. 1 /\ 2 * d1 + d0 \in 0 .. 3 /\ 4 * d2 + 2 * d1 + d0 \in 0 .. 7
    OBVIOUS
  <2>5. QED
    BY <1>8, <2>1, <2>2, <2>3, <2>4
<1>10. x \div 16 = q4 /\ x \div 32 = q5
  <2>1. \A y \in 0 .. 15 : (q4 * 16 + y) \div 16 = q4
    BY DividedBack
  <2>2. \A y \in 0 .. 31 : (q5 * 32 + y) \div 32 = q5
    BY DividedBack
  <2>3. /\ 8 * d3 + 4 * d2 + 2 * d1 + d0 \in 0 .. 15
        /\ 16 * d4 + 8 * d3 + 4 * d2 + 2 * d1 + d0 \in 0 .. 31
    OBVIOUS
  <2>4. QED
    BY <1>8, <2>1, <2>2, <2>3
<1>11. x \div 64 = q6 /\ x \div 128 = q7
  <2>1. \A y \in 0 .. 63 : (q6 * 64 + y) \div 64 = q6
    BY DividedBack
  <2>2. \A y \in 0 .. 127 : (q7 * 128 + y) \div 128 = q7
    BY DividedBack
  <2>3. /\ 32 * d5 + 16 * d4 + 8 * d3 + 4 * d2 + 2 * d1 + d0 \in 0 .. 63
        /\ 64 * d6 + 32 * d5 + 16 * d4 + 8 * d3 + 4 * d2 + 2 * d1 + d0 \in 0 .. 127
    OBVIOUS
  <2>4. QED
    BY <1>8, <2>1, <2>2, <2>3
<1>12. q7 % 2 = q7
  OBVIOUS
<1>13. /\ (x \div 128) % 2 = q7 /\ (x \div 64) % 2 = d6 /\ (x \div 32) % 2 = d5
       /\ (x \div 16) % 2 = d4 /\ (x \div 8) % 2 = d3 /\ (x \div 4) % 2 = d2
       /\ (x \div 2) % 2 = d1 /\ x % 2 = d0
  BY <1>1, <1>2, <1>3, <1>4, <1>5, <1>6, <1>7, <1>9, <1>10, <1>11, <1>12, Zenon
<1>14. x = 128 * q7 + 64 * d6 + 32 * d5 + 16 * d4 + 8 * d3 + 4 * d2 + 2 * d1 + d0
  BY <1>8
<1>15. PICK d : d = [i \in 0 .. 7 |->
                      CASE i = 7 -> q7 [] i = 6 -> d6 [] i = 5 -> d5 [] i = 4 -> d4
                        [] i = 3 -> d3 [] i = 2 -> d2 [] i = 1 -> d1 [] OTHER -> d0]
  OBVIOUS
<1>16. /\ d[7] = q7 /\ d[6] = d6 /\ d[5] = d5 /\ d[4] = d4
       /\ d[3] = d3 /\ d[2] = d2 /\ d[1] = d1 /\ d[0] = d0
  BY <1>15
<1>17. q7 \in {0, 1}
  OBVIOUS
<1>18. \A i \in 0 .. 7 : i = 0 \/ i = 1 \/ i = 2 \/ i = 3 \/ i = 4 \/ i = 5 \/ i = 6 \/ i = 7
  OBVIOUS
<1>19. d \in [0 .. 7 -> {0, 1}]
  <2>1. \A i \in 0 .. 7 : d[i] \in {0, 1}
    BY <1>16, <1>17, <1>18
  <2>2. d = [i \in 0 .. 7 |-> d[i]]
    BY <1>15
  <2>3. QED
    BY <2>1, <2>2
<1>20. x \div 1 = x
  OBVIOUS
<1>21. ASSUME NEW i \in 0 .. 7 PROVE (x \div 2 ^ i) % 2 = d[i]
  <2>1. CASE i = 0
    BY <1>13, <1>16, <1>20, <2>1, Powers
  <2>2. CASE i = 1
    BY <1>13, <1>16, <2>2, Powers
  <2>3. CASE i = 2
    BY <1>13, <1>16, <2>3, Powers
  <2>4. CASE i = 3
    BY <1>13, <1>16, <2>4, Powers
  <2>5. CASE i = 4
    BY <1>13, <1>16, <2>5, Powers
  <2>6. CASE i = 5
    BY <1>13, <1>16, <2>6, Powers
  <2>7. CASE i = 6
    BY <1>13, <1>16, <2>7, Powers
  <2>8. CASE i = 7
    BY <1>13, <1>16, <2>8, Powers
  <2>9. QED
    BY <1>18, <2>1, <2>2, <2>3, <2>4, <2>5, <2>6, <2>7, <2>8
<1>22. x = 128 * d[7] + 64 * d[6] + 32 * d[5] + 16 * d[4] + 8 * d[3] + 4 * d[2] + 2 * d[1] + d[0]
  BY <1>14, <1>16
<1>23. QED
  BY <1>19, <1>21, <1>22

Octets == Seq(0 .. 255)
Quintets == Seq(0 .. 31)

\* Where a bit is.
LEMMA BitPlace ==
  ASSUME NEW w \in Nat, w > 1, NEW L \in Nat, NEW i \in 0 .. w * L - 1
  PROVE  \E q \in 0 .. L - 1, d \in 0 .. w - 1 : q = i \div w /\ d = i % w /\ i = q * w + d
<1>1. CASE i = 0
  <2>1. 0 \div w = 0 /\ 0 % w = 0 /\ L > 0
    <3>1. (0 * w + 0) \div w = 0 /\ (0 * w + 0) % w = 0
      BY DividedBack
    <3>2. L # 0
      BY <1>1
    <3>3. QED
      BY <3>1, <3>2
  <2>2. 0 \in 0 .. L - 1 /\ 0 \in 0 .. w - 1 /\ i = 0 * w + 0
    BY <1>1, <2>1
  <2>3. QED
    BY <1>1, <2>1, <2>2
<1>2. CASE i # 0
  <2>1. i \in Nat
    OBVIOUS
  <2>2. PICK q \in 0 .. i - 1, d \in 0 .. w - 1 : q = i \div w /\ d = i % w /\ i = q * w + d
    BY <1>2, <2>1, Divided
  <2>3. q < L
    <3>1. SUFFICES ASSUME q >= L PROVE FALSE
      OBVIOUS
    <3>2. q * w >= L * w /\ L * w = w * L
      BY <3>1
    <3>3. QED
      BY <2>2, <3>2
  <2>4. q \in 0 .. L - 1
    BY <2>3
  <2>5. QED
    BY <2>2, <2>4
<1>3. QED
  BY <1>1, <1>2

LEMMA BitOfOctets ==
  ASSUME NEW in \in Octets, NEW i \in 0 .. 8 * Len(in) - 1
  PROVE  Bit(in, 8, i) \in {0, 1}
<1>1. PICK L \in Nat : L = Len(in)
  BY DEF Octets
<1>2. PICK q \in 0 .. L - 1, d \in 0 .. 8 - 1 : q = i \div 8 /\ d = i % 8
  BY <1>1, BitPlace
<1>3. PICK x \in 0 .. 255 : x = in[q + 1]
  <2>1. \A j \in 1 .. L : in[j] \in 0 .. 255
    BY <1>1 DEF Octets
  <2>2. q + 1 \in 1 .. L
    OBVIOUS
  <2>3. QED
    BY <2>1, <2>2
<1>4. PICK p \in Nat : p = 2 ^ (7 - d) /\ p > 0
  <2>1. PICK m \in 0 .. 7 : m = 7 - d
    OBVIOUS
  <2>2. m = 0 \/ m = 1 \/ m = 2 \/ m = 3 \/ m = 4 \/ m = 5 \/ m = 6 \/ m = 7
    OBVIOUS
  <2>3. \E n \in {1, 2, 4, 8, 16, 32, 64, 128} : 2 ^ m = n
    <3>1. CASE m = 0
      BY <3>1, Powers
    <3>2. CASE m = 1
      BY <3>2, Powers
    <3>3. CASE m = 2
      BY <3>3, Powers
    <3>4. CASE m = 3
      BY <3>4, Powers
    <3>5. CASE m = 4
      BY <3>5, Powers
    <3>6. CASE m = 5
      BY <3>6, Powers
    <3>7. CASE m = 6
      BY <3>7, Powers
    <3>8. CASE m = 7
      BY <3>8, Powers
    <3>9. QED
      BY <2>2, <3>1, <3>2, <3>3, <3>4, <3>5, <3>6, <3>7, <3>8
  <2>4. QED
    BY <2>1, <2>3
<1>5. (x \div p) % 2 \in {0, 1}
  BY <1>4
<1>6. Bit(in, 8, i) = (x \div p) % 2
  BY <1>2, <1>3, <1>4 DEF Bit
<1>7. QED
  BY <1>5, <1>6

\* Groups of five hold the bits of the octets, and zeros behind them.
LEMMA Regrouped ==
  ASSUME NEW in \in Octets
  PROVE  \E G \in Nat : \E groups \in Quintets :
           /\ G = (8 * Len(in) + 4) \div 5 /\ Len(groups) = G
           /\ groups = convert_bits(in, 8, 5, TRUE).out
           /\ \A k \in 0 .. 5 * G - 1 : Bit(groups, 5, k) = PaddedBit(in, 8, k)
<1>1. PICK L \in Nat : L = Len(in)
  BY DEF Octets
<1>2. PICK G \in Nat : G = (8 * L + 4) \div 5
  OBVIOUS
<1>3. PICK groups : groups = [g \in 1 .. G |->
        SumSeq([i \in 1 .. 5 |-> PaddedBit(in, 8, 5 * (g - 1) + i - 1) * 2 ^ (5 - i)])]
  OBVIOUS
<1>4. convert_bits(in, 8, 5, TRUE).out = groups
  <2>1. 8 * L + (5 - 1) = 8 * L + 4
    OBVIOUS
  <2>2. QED
    BY <1>1, <1>2, <1>3, <2>1 DEF convert_bits
<1>5. \A k \in Nat : PaddedBit(in, 8, k) \in {0, 1}
  <2>1. SUFFICES ASSUME NEW k \in Nat, k < 8 * L PROVE Bit(in, 8, k) \in {0, 1}
    BY <1>1 DEF PaddedBit
  <2>2. k \in 0 .. 8 * Len(in) - 1
    BY <1>1, <2>1
  <2>3. QED
    BY <2>2, BitOfOctets
<1>6. ASSUME NEW g \in 1 .. G
      PROVE  /\ groups[g] \in 0 .. 31
             /\ \A j \in 0 .. 4 :
                  (groups[g] \div 2 ^ j) % 2 = PaddedBit(in, 8, 5 * (g - 1) + 4 - j)
  <2>1. PICK e : e = [j \in 0 .. 4 |-> PaddedBit(in, 8, 5 * (g - 1) + 4 - j)]
    OBVIOUS
  <2>2. e \in [0 .. 4 -> {0, 1}]
    <3>1. \A j \in 0 .. 4 : 5 * (g - 1) + 4 - j \in Nat
      OBVIOUS
    <3>2. \A j \in 0 .. 4 : PaddedBit(in, 8, 5 * (g - 1) + 4 - j) \in {0, 1}
      BY <1>5, <3>1, Zenon
    <3>3. QED
      BY <2>1, <3>2, Zenon
  <2>3. PICK s : s = [i \in 1 .. 5 |-> PaddedBit(in, 8, 5 * (g - 1) + i - 1) * 2 ^ (5 - i)]
    OBVIOUS
  <2>4. /\ e[0] = PaddedBit(in, 8, 5 * (g - 1) + 5 - 1)
        /\ e[1] = PaddedBit(in, 8, 5 * (g - 1) + 4 - 1)
        /\ e[2] = PaddedBit(in, 8, 5 * (g - 1) + 3 - 1)
        /\ e[3] = PaddedBit(in, 8, 5 * (g - 1) + 2 - 1)
        /\ e[4] = PaddedBit(in, 8, 5 * (g - 1) + 1 - 1)
    <3>1. /\ 5 * (g - 1) + 4 - 0 = 5 * (g - 1) + 5 - 1
          /\ 5 * (g - 1) + 4 - 1 = 5 * (g - 1) + 4 - 1
          /\ 5 * (g - 1) + 4 - 2 = 5 * (g - 1) + 3 - 1
          /\ 5 * (g - 1) + 4 - 3 = 5 * (g - 1) + 2 - 1
          /\ 5 * (g - 1) + 4 - 4 = 5 * (g - 1) + 1 - 1
      OBVIOUS
    <3>2. 0 \in 0 .. 4 /\ 1 \in 0 .. 4 /\ 2 \in 0 .. 4 /\ 3 \in 0 .. 4 /\ 4 \in 0 .. 4
      OBVIOUS
    <3>3. QED
      BY <2>1, <3>1, <3>2
  <2>5. /\ s[1] = 16 * e[4] /\ s[2] = 8 * e[3] /\ s[3] = 4 * e[2] /\ s[4] = 2 * e[1]
        /\ s[5] = e[0]
    <3>1. /\ e[0] \in Int /\ e[1] \in Int /\ e[2] \in Int /\ e[3] \in Int /\ e[4] \in Int
      BY <2>2
    <3>2. /\ s[1] = e[4] * 2 ^ 4 /\ s[2] = e[3] * 2 ^ 3 /\ s[3] = e[2] * 2 ^ 2
          /\ s[4] = e[1] * 2 ^ 1 /\ s[5] = e[0] * 2 ^ 0
      BY <2>3, <2>4
    <3>3. QED
      BY <3>1, <3>2, Powers
  <2>6. s \in Seq(Int) /\ Len(s) = 5
    <3>1. \A i \in 1 .. 5 : i = 1 \/ i = 2 \/ i = 3 \/ i = 4 \/ i = 5
      OBVIOUS
    <3>2. e[0] \in Int /\ e[1] \in Int /\ e[2] \in Int /\ e[3] \in Int /\ e[4] \in Int
      BY <2>2
    <3>3. \A i \in 1 .. 5 : s[i] \in Int
      BY <2>5, <3>1, <3>2
    <3>4. s = [i \in 1 .. 5 |-> s[i]]
      BY <2>3
    <3>5. s \in [1 .. 5 -> Int]
      BY <3>3, <3>4
    <3>6. QED
      BY <3>5, Tabulated
  <2>7. groups[g] = e[0] + 2 * e[1] + 4 * e[2] + 8 * e[3] + 16 * e[4]
    <3>1. groups[g] = SumSeq(s)
      BY <1>3, <2>3
    <3>2. SumSeq(s) = s[1] + s[2] + s[3] + s[4] + s[5]
      BY <2>6, SumOfFive
    <3>3. e[0] \in Int /\ e[1] \in Int /\ e[2] \in Int /\ e[3] \in Int /\ e[4] \in Int
      BY <2>2
    <3>4. QED
      BY <2>5, <3>1, <3>2, <3>3
  <2>8. groups[g] \in 0 .. 31 /\ \A j \in 0 .. 4 : (groups[g] \div 2 ^ j) % 2 = e[j]
    BY <2>2, <2>7, FiveBits
  <2>9. QED
    BY <2>1, <2>8, Zenon
<1>7. groups \in Quintets /\ Len(groups) = G
  <2>1. groups = [g \in 1 .. G |-> groups[g]]
    BY <1>3
  <2>2. groups \in [1 .. G -> 0 .. 31]
    BY <1>6, <2>1
  <2>3. QED
    BY <2>2, Tabulated DEF Quintets
<1>8. ASSUME NEW k \in 0 .. 5 * G - 1
      PROVE  Bit(groups, 5, k) = PaddedBit(in, 8, k)
  <2>1. PICK q \in 0 .. G - 1, d \in 0 .. 5 - 1 : q = k \div 5 /\ d = k % 5 /\ k = q * 5 + d
    BY BitPlace
  <2>2. q + 1 \in 1 .. G /\ 4 - d \in 0 .. 4 /\ 5 * (q + 1 - 1) + 4 - (4 - d) = k
    BY <2>1
  <2>3. (groups[q + 1] \div 2 ^ (4 - d)) % 2 = PaddedBit(in, 8, k)
    <3>1. PICK g \in 1 .. G, j \in 0 .. 4 :
            g = q + 1 /\ j = 4 - d /\ 5 * (g - 1) + 4 - j = k
      BY <2>2
    <3>2. (groups[g] \div 2 ^ j) % 2 = PaddedBit(in, 8, 5 * (g - 1) + 4 - j)
      BY <1>6
    <3>3. QED
      BY <3>1, <3>2
  <2>4. 5 - 1 - d = 4 - d
    OBVIOUS
  <2>5. QED
    BY <2>1, <2>3, <2>4 DEF Bit
<1>9. QED
  BY <1>1, <1>2, <1>4, <1>7, <1>8

\* And the octets back: only zeros, and no full group of them, are left over.
LEMMA OctetsBack ==
  ASSUME NEW in \in Octets
  PROVE  /\ convert_bits(in, 8, 5, TRUE).out \in Quintets
         /\ Len(convert_bits(in, 8, 5, TRUE).out) = (8 * Len(in) + 4) \div 5
         /\ convert_bits(convert_bits(in, 8, 5, TRUE).out, 5, 8, FALSE) = [ok |-> TRUE, out |-> in]
<1>1. PICK G \in Nat, groups \in Quintets :
        /\ G = (8 * Len(in) + 4) \div 5 /\ Len(groups) = G
        /\ groups = convert_bits(in, 8, 5, TRUE).out
        /\ \A k \in 0 .. 5 * G - 1 : Bit(groups, 5, k) = PaddedBit(in, 8, k)
  BY Regrouped
<1>2. PICK L \in Nat : L = Len(in)
  BY DEF Octets
<1>3. PICK e \in 0 .. 4 : 5 * G = 8 * L + e
  <2>1. G = (8 * L + 4) \div 5
    BY <1>1, <1>2
  <2>2. 5 * G <= 8 * L + 4 /\ 8 * L + 4 < 5 * G + 5
    BY <2>1
  <2>3. 5 * G - 8 * L \in 0 .. 4 /\ 5 * G = 8 * L + (5 * G - 8 * L)
    BY <2>2
  <2>4. QED
    BY <2>3
<1>4. (5 * G) % 8 = e /\ (5 * G) \div 8 = L
  <2>1. 5 * G = L * 8 + e /\ e \in 0 .. 8 - 1
    BY <1>3
  <2>2. QED
    BY <2>1, DividedBack
<1>5. LeftOver(groups, 5, 8)
  <2>1. 5 * Len(groups) = 5 * G /\ (5 * Len(groups)) % 8 = e
    BY <1>1, <1>4
  <2>2. e < 5
    OBVIOUS
  <2>3. ASSUME NEW i \in 5 * G - e .. 5 * G - 1 PROVE Bit(groups, 5, i) = 0
    <3>1. i \in 0 .. 5 * G - 1 /\ ~(i < 8 * L)
      BY <1>3
    <3>2. Bit(groups, 5, i) = PaddedBit(in, 8, i)
      BY <1>1, <3>1
    <3>3. QED
      BY <1>2, <3>1, <3>2 DEF PaddedBit
  <2>4. QED
    BY <2>1, <2>2, <2>3 DEF LeftOver
<1>6. PICK back : back = [h \in 1 .. L |->
        SumSeq([i \in 1 .. 8 |-> PaddedBit(groups, 5, 8 * (h - 1) + i - 1) * 2 ^ (8 - i)])]
  OBVIOUS
<1>7. convert_bits(groups, 5, 8, FALSE) = [ok |-> TRUE, out |-> back]
  <2>1. (5 * Len(groups) + 0) \div 8 = L
    BY <1>1, <1>4
  <2>2. QED
    BY <1>5, <1>6, <2>1 DEF convert_bits
<1>8. \A j \in 1 .. L : in[j] \in 0 .. 255
  BY <1>2 DEF Octets
<1>9. ASSUME NEW h \in 1 .. L PROVE back[h] = in[h]
  <2>1. PICK x \in 0 .. 255 : x = in[h]
    BY <1>8
  <2>2. PICK d \in [0 .. 7 -> {0, 1}] :
          /\ x = 128 * d[7] + 64 * d[6] + 32 * d[5] + 16 * d[4] + 8 * d[3] + 4 * d[2]
                 + 2 * d[1] + d[0]
          /\ \A i \in 0 .. 7 : (x \div 2 ^ i) % 2 = d[i]
    BY EightBits
  <2>3. PICK s : s = [i \in 1 .. 8 |-> PaddedBit(groups, 5, 8 * (h - 1) + i - 1) * 2 ^ (8 - i)]
    OBVIOUS
  <2>4. ASSUME NEW i \in 1 .. 8
        PROVE  PaddedBit(groups, 5, 8 * (h - 1) + i - 1) = d[8 - i]
    <3>1. PICK k \in 0 .. 8 * L - 1 : k = 8 * (h - 1) + i - 1
      OBVIOUS
    <3>2. k \in 0 .. 5 * G - 1 /\ k < 5 * Len(groups)
      BY <1>1, <1>3
    <3>3. PaddedBit(groups, 5, k) = PaddedBit(in, 8, k)
      BY <1>1, <3>2 DEF PaddedBit
    <3>4. PaddedBit(in, 8, k) = Bit(in, 8, k)
      BY <1>2 DEF PaddedBit
    <3>5. k \div 8 = h - 1 /\ k % 8 = i - 1
      <4>1. k = (h - 1) * 8 + (i - 1) /\ h - 1 \in Nat /\ i - 1 \in 0 .. 8 - 1
        BY <3>1
      <4>2. QED
        BY <4>1, DividedBack
    <3>6. PICK j \in 0 .. 7 : j = 8 - i /\ j = 8 - 1 - (i - 1)
      OBVIOUS
    <3>7. Bit(in, 8, k) = (x \div 2 ^ j) % 2
      <4>1. h - 1 + 1 = h
        OBVIOUS
      <4>2. Bit(in, 8, k) = (in[h - 1 + 1] \div 2 ^ (8 - 1 - (i - 1))) % 2
        BY <3>5, Zenon DEF Bit
      <4>3. QED
        BY <2>1, <3>6, <4>1, <4>2
    <3>8. PaddedBit(groups, 5, k) = (x \div 2 ^ j) % 2
      BY <3>3, <3>4, <3>7, Zenon
    <3>9. PaddedBit(groups, 5, k) = d[j]
      BY <2>2, <3>8, Zenon
    <3>10. QED
      BY <3>1, <3>6, <3>9, Zenon
  <2>5. \A i \in 1 .. 8 : s[i] = d[8 - i] * 2 ^ (8 - i)
    BY <2>3, <2>4
  <2>6. /\ d[0] \in Int /\ d[1] \in Int /\ d[2] \in Int /\ d[3] \in Int
        /\ d[4] \in Int /\ d[5] \in Int /\ d[6] \in Int /\ d[7] \in Int
    OBVIOUS
  <2>7. /\ s[1] = 128 * d[7] /\ s[2] = 64 * d[6] /\ s[3] = 32 * d[5] /\ s[4] = 16 * d[4]
        /\ s[5] = 8 * d[3] /\ s[6] = 4 * d[2] /\ s[7] = 2 * d[1] /\ s[8] = d[0]
    <3>1. /\ s[1] = d[7] * 2 ^ 7 /\ s[2] = d[6] * 2 ^ 6 /\ s[3] = d[5] * 2 ^ 5
          /\ s[4] = d[4] * 2 ^ 4 /\ s[5] = d[3] * 2 ^ 3 /\ s[6] = d[2] * 2 ^ 2
          /\ s[7] = d[1] * 2 ^ 1 /\ s[8] = d[0] * 2 ^ 0
      BY <2>5
    <3>2. QED
      BY <2>6, <3>1, Powers
  <2>8. s \in Seq(Int) /\ Len(s) = 8
    <3>1. \A i \in 1 .. 8 : i = 1 \/ i = 2 \/ i = 3 \/ i = 4 \/ i = 5 \/ i = 6 \/ i = 7 \/ i = 8
      OBVIOUS
    <3>2. \A i \in 1 .. 8 : s[i] \in Int
      BY <2>6, <2>7, <3>1
    <3>3. s = [i \in 1 .. 8 |-> s[i]]
      BY <2>3
    <3>4. s \in [1 .. 8 -> Int]
      BY <3>2, <3>3
    <3>5. PICK n \in Nat : n = 8
      OBVIOUS
    <3>6. s \in [1 .. n -> Int]
      BY <3>4, <3>5, Zenon
    <3>7. s \in Seq(Int) /\ Len(s) = n
      BY <3>6, Tabulated, Zenon
    <3>8. QED
      BY <3>5, <3>7, Zenon
  <2>9. back[h] = SumSeq(s)
    BY <1>6, <2>3
  <2>10. SumSeq(s) = s[1] + s[2] + s[3] + s[4] + s[5] + s[6] + s[7] + s[8]
    BY <2>8, SumOfEight
  <2>11. back[h] = x
    BY <2>2, <2>6, <2>7, <2>9, <2>10
  <2>12. QED
    BY <2>1, <2>11
<1>10. back = in
  <2>1. in = [h \in 1 .. L |-> in[h]]
    BY <1>2 DEF Octets
  <2>2. back = [h \in 1 .. L |-> back[h]]
    BY <1>6
  <2>3. QED
    BY <1>9, <2>1, <2>2
<1>11. QED
  BY <1>1, <1>7, <1>10

-----------------------------------------------------------------------------
(* Characters. *)

LEMMA Charset ==
  /\ charset[1] = 113 /\ charset[2] = 112 /\ charset[3] = 122 /\ charset[4] = 114
  /\ charset[5] = 121 /\ charset[6] = 57 /\ charset[7] = 120 /\ charset[8] = 56
  /\ charset[9] = 103 /\ charset[10] = 102 /\ charset[11] = 50 /\ charset[12] = 116
  /\ charset[13] = 118 /\ charset[14] = 100 /\ charset[15] = 119 /\ charset[16] = 48
  /\ charset[17] = 115 /\ charset[18] = 51 /\ charset[19] = 106 /\ charset[20] = 110
  /\ charset[21] = 53 /\ charset[22] = 52 /\ charset[23] = 107 /\ charset[24] = 104
  /\ charset[25] = 99 /\ charset[26] = 101 /\ charset[27] = 54 /\ charset[28] = 109
  /\ charset[29] = 117 /\ charset[30] = 97 /\ charset[31] = 55 /\ charset[32] = 108
BY DEF charset

LEMMA ThirtyTwo ==
  ASSUME NEW v \in 1 .. 32
  PROVE  \/ v = 1 \/ v = 2 \/ v = 3 \/ v = 4 \/ v = 5 \/ v = 6 \/ v = 7 \/ v = 8
         \/ v = 9 \/ v = 10 \/ v = 11 \/ v = 12 \/ v = 13 \/ v = 14 \/ v = 15 \/ v = 16
         \/ v = 17 \/ v = 18 \/ v = 19 \/ v = 20 \/ v = 21 \/ v = 22 \/ v = 23 \/ v = 24
         \/ v = 25 \/ v = 26 \/ v = 27 \/ v = 28 \/ v = 29 \/ v = 30 \/ v = 31 \/ v = 32
OBVIOUS

\* Digits and letters in lower case, without the separator.
LEMMA CharsetChars ==
  ASSUME NEW v \in 1 .. 32
  PROVE  /\ charset[v] \in (48 .. 57) \cup (97 .. 122) /\ charset[v] \in Nat
         /\ charset[v] # Separator
BY Charset, ThirtyTwo DEF Separator

LEMMA CharsetOnce ==
  ASSUME NEW v \in 1 .. 32, NEW w \in 1 .. 32, charset[v] = charset[w]
  PROVE  v = w
BY Charset, ThirtyTwo

LEMMA RevOf ==
  ASSUME NEW c \in 33 .. 126, NEW v \in 0 .. 31, Lower(c) = charset[v + 1]
  PROVE  charset_rev[c] = v
<1>1. PICK w : w = CHOOSE x \in 1 .. 32 : charset[x] = Lower(c)
  OBVIOUS
<1>2. PICK u \in 1 .. 32 : u = v + 1
  OBVIOUS
<1>3. w \in 1 .. 32 /\ charset[w] = Lower(c)
  BY <1>1, <1>2
<1>4. w = u
  BY <1>2, <1>3, CharsetOnce
<1>5. charset_rev[c] = w - 1
  BY <1>1, <1>2 DEF charset_rev
<1>6. QED
  BY <1>2, <1>4, <1>5

-----------------------------------------------------------------------------
(* The checksum over an HRP and values. *)

LEMMA HrpWord ==
  ASSUME NEW hrp \in Seq(Nat)
  PROVE  HrpChecksum(hrp) \in Word
<1>1. PICK n \in Nat : n = Len(hrp) /\ DOMAIN hrp = 1 .. n
  OBVIOUS
<1>2. PICK f : f = [i \in 1 .. n |-> Bits(Lower(hrp[i]), 8)]
  OBVIOUS
<1>3. PICK high, low : /\ high = [i \in 1 .. n |-> Shift(f[i] \ (0 .. 4), 0 - 5)]
                       /\ low = [i \in 1 .. n |-> f[i] \cap (0 .. 4)]
  OBVIOUS
<1>4. \A i \in 1 .. n : f[i] \subseteq Int
  BY <1>2 DEF Bits
<1>5. high \in Seq(Word) /\ low \in Seq(Word)
  <2>1. \A i \in 1 .. n : Shift(f[i] \ (0 .. 4), 0 - 5) \in Word
    BY <1>4 DEF Shift, Word
  <2>2. \A i \in 1 .. n : f[i] \cap (0 .. 4) \in Word
    BY <1>4 DEF Word
  <2>3. high \in [1 .. n -> Word] /\ low \in [1 .. n -> Word]
    BY <1>3, <2>1, <2>2
  <2>4. QED
    BY <2>3, Tabulated, Zenon
<1>6. <<{}>> \in Seq(Word) /\ {0} \in Word
  BY DEF Word
<1>7. high \o <<{}>> \in Seq(Word)
  BY <1>5, <1>6, Joined, Zenon
<1>8. high \o <<{}>> \o low \in Seq(Word)
  BY <1>5, <1>7, Joined, Zenon
<1>9. HrpChecksum(hrp) = Absorb({0}, high \o <<{}>> \o low)
  BY <1>1, <1>2, <1>3 DEF HrpChecksum
<1>10. QED
  BY <1>6, <1>8, <1>9, AbsorbType, Zenon

\* The case of the HRP makes no difference.
LEMMA HrpCase ==
  ASSUME NEW n \in Nat, NEW hrp \in Seq(Nat), NEW copy \in Seq(Nat), Len(hrp) = n, Len(copy) = n,
         \A i \in 1 .. n : Lower(copy[i]) = Lower(hrp[i])
  PROVE  HrpChecksum(copy) = HrpChecksum(hrp)
<1>1. DOMAIN hrp = 1 .. n /\ DOMAIN copy = 1 .. n
  OBVIOUS
<1>2. PICK f, g : /\ f = [i \in 1 .. n |-> Bits(Lower(hrp[i]), 8)]
                  /\ g = [i \in 1 .. n |-> Bits(Lower(copy[i]), 8)]
  OBVIOUS
<1>3. f = g
  BY <1>2
<1>4. /\ HrpChecksum(hrp) = Absorb({0}, [i \in 1 .. n |-> Shift(f[i] \ (0 .. 4), 0 - 5)]
                                         \o <<{}>> \o [i \in 1 .. n |-> f[i] \cap (0 .. 4)])
      /\ HrpChecksum(copy) = Absorb({0}, [i \in 1 .. n |-> Shift(g[i] \ (0 .. 4), 0 - 5)]
                                          \o <<{}>> \o [i \in 1 .. n |-> g[i] \cap (0 .. 4)])
  BY <1>1, <1>2 DEF HrpChecksum
<1>5. QED
  BY <1>3, <1>4

BitsOf(s) == [i \in DOMAIN s |-> Bits(s[i], 5)]

LEMMA BitsOfWords ==
  ASSUME NEW s \in Quintets
  PROVE  /\ BitsOf(s) \in Seq(Word) /\ Len(BitsOf(s)) = Len(s)
         /\ \A i \in 1 .. Len(s) : BitsOf(s)[i] = Bits(s[i], 5)
<1>1. PICK n \in Nat : n = Len(s) /\ DOMAIN s = 1 .. n
  BY DEF Quintets
<1>2. BitsOf(s) = [i \in 1 .. n |-> Bits(s[i], 5)]
  BY <1>1 DEF BitsOf
<1>3. \A i \in 1 .. n : Bits(s[i], 5) \in Word
  BY DEF Bits, Word
<1>4. BitsOf(s) \in [1 .. n -> Word]
  BY <1>2, <1>3
<1>5. BitsOf(s) \in Seq(Word) /\ Len(BitsOf(s)) = n
  BY <1>4, Tabulated, Zenon
<1>6. QED
  BY <1>1, <1>2, <1>5

LEMMA BitsOfJoined ==
  ASSUME NEW s \in Quintets, NEW t \in Quintets
  PROVE  BitsOf(s \o t) = BitsOf(s) \o BitsOf(t)
<1>1. PICK m \in Nat, n \in Nat : m = Len(s) /\ n = Len(t)
  BY DEF Quintets
<1>2. PICK st : st = s \o t
  OBVIOUS
<1>3. /\ st \in Quintets /\ Len(st) = m + n
      /\ \A i \in 1 .. m : st[i] = s[i]
      /\ \A i \in 1 .. n : st[m + i] = t[i]
  <2>1. s \in Seq(0 .. 31) /\ t \in Seq(0 .. 31)
    BY DEF Quintets
  <2>2. PICK u \in Seq(0 .. 31) : JoinOf(u, s, t, m, n)
    BY <1>1, <2>1, JoinIs
  <2>3. QED
    BY <1>2, <2>2 DEF JoinOf, Quintets
<1>4. PICK a \in Seq(Word), b \in Seq(Word) :
        /\ a = BitsOf(s) /\ b = BitsOf(t) /\ Len(a) = m /\ Len(b) = n
        /\ \A i \in 1 .. m : a[i] = Bits(s[i], 5)
        /\ \A i \in 1 .. n : b[i] = Bits(t[i], 5)
  BY <1>1, BitsOfWords
<1>5. /\ a \o b \in Seq(Word) /\ Len(a \o b) = m + n
      /\ \A i \in 1 .. m : (a \o b)[i] = a[i]
      /\ \A i \in 1 .. n : (a \o b)[m + i] = b[i]
  BY <1>4
<1>6. /\ BitsOf(st) \in Seq(Word) /\ Len(BitsOf(st)) = m + n
      /\ \A i \in 1 .. m + n : BitsOf(st)[i] = Bits(st[i], 5)
  BY <1>3, BitsOfWords
<1>7. ASSUME NEW i \in 1 .. m + n
      PROVE  BitsOf(st)[i] = (a \o b)[i]
  <2>1. CASE i <= m
    BY <1>3, <1>4, <1>5, <1>6, <2>1
  <2>2. CASE ~(i <= m)
    <3>1. PICK j \in 1 .. n : i = m + j
      <4>1. i - m \in 1 .. n /\ i = m + (i - m)
        BY <2>2
      <4>2. QED
        BY <4>1
    <3>2. st[i] = t[j] /\ (a \o b)[i] = b[j] /\ b[j] = Bits(t[j], 5)
      BY <1>3, <1>4, <1>5, <3>1
    <3>3. QED
      BY <1>6, <3>2
  <2>3. QED
    BY <2>1, <2>2
<1>8. BitsOf(st) = a \o b
  BY <1>5, <1>6, <1>7
<1>9. QED
  BY <1>2, <1>4, <1>8

\* The checksum bech32_encode puts behind the values.
ChecksumWord(hrp, data) == Xor(Polymod(hrp, data \o [i \in 1 .. 6 |-> 0]), {0})
SumOfWord(chk) == [i \in 1 .. 6 |-> FromBits(Fifth(chk, i))]

LEMMA SumVerifies ==
  ASSUME NEW hrp \in Seq(Nat), NEW data \in Quintets, NEW sum,
         sum = SumOfWord(ChecksumWord(hrp, data))
  PROVE  sum \in Quintets /\ Len(sum) = 6 /\ Polymod(hrp, data \o sum) = {0}
<1>0. PICK six \in Nat : six = 6
  OBVIOUS
<1>1. PICK zeros : six = 6 /\ zeros = [i \in 1 .. six |-> 0]
  BY <1>0
<1>2. zeros \in Quintets /\ Len(zeros) = six
  <2>1. zeros \in [1 .. six -> 0 .. 31]
    BY <1>1
  <2>2. QED
    BY <2>1, Tabulated, Zenon DEF Quintets
<1>3. PICK chk : chk = ChecksumWord(hrp, data)
  OBVIOUS
<1>4. sum \in Quintets /\ Len(sum) = six /\ \A i \in 1 .. six : sum[i] = FromBits(Fifth(chk, i))
  <2>1. ASSUME NEW i \in 1 .. 6
        PROVE  FromBits(Fifth(chk, i)) \in 0 .. 31
    BY FifthBits, BitsOfFrom, Zenon
  <2>2. sum = [i \in 1 .. six |-> FromBits(Fifth(chk, i))]
    BY <1>1, <1>3 DEF SumOfWord
  <2>3. sum \in [1 .. six -> 0 .. 31]
    BY <1>1, <2>1, <2>2
  <2>4. sum \in Quintets /\ Len(sum) = six
    BY <2>3, Tabulated, Zenon DEF Quintets
  <2>5. QED
    BY <2>2, <2>4
<1>5. PICK D \in Seq(Word), none \in Seq(Word), S \in Seq(Word) :
        /\ D = BitsOf(data) /\ none = BitsOf(zeros) /\ S = BitsOf(sum)
        /\ Len(none) = six /\ Len(S) = six
        /\ \A i \in 1 .. six : none[i] = Bits(zeros[i], 5) /\ S[i] = Bits(sum[i], 5)
  BY <1>2, <1>4, BitsOfWords
<1>6. \A i \in 1 .. 6 : none[i] = {}
  BY <1>1, <1>5, BitsOfZero
<1>7. \A i \in 1 .. 6 : S[i] = Fifth(chk, i)
  <2>1. SUFFICES ASSUME NEW i \in 1 .. 6 PROVE S[i] = Fifth(chk, i)
    OBVIOUS
  <2>2. S[i] = Bits(FromBits(Fifth(chk, i)), 5)
    BY <1>1, <1>4, <1>5
  <2>3. Fifth(chk, i) \in SUBSET (0 .. 4)
    BY FifthBits
  <2>4. QED
    BY <2>2, <2>3, BitsOfFrom, Zenon
<1>8. PICK H, W \in Word : H = HrpChecksum(hrp) /\ H \in Word /\ W = Absorb(H, D)
  <2>1. PICK H \in Word : H = HrpChecksum(hrp)
    BY HrpWord
  <2>2. Absorb(H, D) \in Word
    BY AbsorbType
  <2>3. QED
    BY <2>1, <2>2
<1>9. Polymod(hrp, data \o zeros) = Absorb(W, none)
  <2>1. Polymod(hrp, data \o zeros) = Absorb(H, BitsOf(data \o zeros))
    BY <1>8 DEF Polymod, BitsOf
  <2>2. BitsOf(data \o zeros) = D \o none
    BY <1>2, <1>5, BitsOfJoined
  <2>3. Absorb(H, D \o none) = Absorb(Absorb(H, D), none)
    BY AbsorbConcat, <1>8
  <2>4. QED
    BY <1>8, <2>1, <2>2, <2>3, Zenon
<1>10. Polymod(hrp, data \o sum) = Absorb(W, S)
  <2>1. Polymod(hrp, data \o sum) = Absorb(H, BitsOf(data \o sum))
    BY <1>8 DEF Polymod, BitsOf
  <2>2. BitsOf(data \o sum) = D \o S
    BY <1>4, <1>5, BitsOfJoined
  <2>3. Absorb(H, D \o S) = Absorb(Absorb(H, D), S)
    BY AbsorbConcat, <1>8
  <2>4. QED
    BY <1>8, <2>1, <2>2, <2>3, Zenon
<1>11. chk = Xor(Absorb(W, none), {0})
  BY <1>1, <1>3, <1>9 DEF ChecksumWord
<1>12. Absorb(W, S) = {0}
  <2>1. Len(none) = 6 /\ Len(S) = 6
    BY <1>1, <1>5
  <2>2. \A c : c = Xor(Absorb(W, none), {0}) =>
               ((\A i \in 1 .. 6 : S[i] = Fifth(c, i)) => Absorb(W, S) = {0})
    BY <1>6, <2>1, Verifies
  <2>3. QED
    BY <1>7, <1>11, <2>2, Zenon
<1>13. QED
  BY <1>1, <1>4, <1>10, <1>12

LEMMA QuintetAt ==
  ASSUME NEW s \in Quintets
  PROVE  /\ Len(s) \in Nat /\ DOMAIN s = 1 .. Len(s) /\ s = [i \in 1 .. Len(s) |-> s[i]]
         /\ \A i \in 1 .. Len(s) : s[i] \in 0 .. 31
<1>1. s \in Seq(0 .. 31)
  BY DEF Quintets
<1>2. Len(s) \in Nat /\ DOMAIN s = 1 .. Len(s)
  BY <1>1
<1>3. s = [i \in 1 .. Len(s) |-> s[i]]
  BY <1>1
<1>4. \A i \in 1 .. Len(s) : s[i] \in 0 .. 31
  BY <1>1, ElementOfSeq
<1>5. QED
  BY <1>2, <1>3, <1>4

LEMMA LowerSeparator ==
  ASSUME NEW c \in 33 .. 126
  PROVE  Lower(c) = Separator <=> c = Separator
BY DEF Lower, IsUpper, Separator

\* What bech32_encode makes: the HRP, the separator and the characters of values
\* whose checksum is right.
TextOf(code, hrp, data, h, m, values) ==
  /\ h = Len(hrp) /\ m = Len(data) + 6 /\ h > 0 /\ h + 1 + m <= 90
  /\ \A i \in 1 .. h : hrp[i] \in 33 .. 126 /\ ~IsUpper(hrp[i])
  /\ values \in Quintets /\ Len(values) = m
  /\ \A i \in 1 .. m - 6 : values[i] = data[i]
  /\ Polymod(hrp, values) = {0}
  /\ code \in Seq(Nat) /\ Len(code) = h + 1 + m
  /\ \A i \in 1 .. h : code[i] = hrp[i]
  /\ code[h + 1] = Separator
  /\ \A i \in 1 .. m : code[h + 1 + i] = charset[values[i] + 1]

LEMMA TextEncoded ==
  ASSUME NEW hrp \in Seq(Nat), hrp # <<>>, NEW data \in Quintets, bech32_encode(hrp, data).ok
  PROVE  \E h \in Nat, m \in Nat, values \in Quintets :
           TextOf(bech32_encode(hrp, data).data, hrp, data, h, m, values)
<1>1. PICK h \in Nat, l \in Nat : h = Len(hrp) /\ l = Len(data) /\ h > 0
  BY DEF Quintets
<1>2. PICK sum : sum = SumOfWord(ChecksumWord(hrp, data))
  OBVIOUS
<1>3. sum \in Quintets /\ Len(sum) = 6 /\ Polymod(hrp, data \o sum) = {0}
  BY <1>2, SumVerifies
<1>4. PICK values : values = data \o sum
  OBVIOUS
<1>5. PICK m \in Nat : m = l + 6
  OBVIOUS
<1>6. /\ values \in Quintets /\ Len(values) = m
      /\ \A i \in 1 .. l : values[i] = data[i]
  <2>1. data \in Seq(0 .. 31) /\ sum \in Seq(0 .. 31) /\ Len(sum) = 6
    BY <1>3 DEF Quintets
  <2>2. PICK six \in Nat : six = 6
    OBVIOUS
  <2>3. PICK s \in Seq(0 .. 31) : JoinOf(s, data, sum, l, six)
    BY <1>1, <2>1, <2>2, JoinIs
  <2>4. s = values /\ Len(s) = l + 6 /\ \A i \in 1 .. l : s[i] = data[i]
    BY <1>4, <2>2, <2>3 DEF JoinOf
  <2>5. QED
    BY <1>5, <2>3, <2>4 DEF Quintets
<1>7. PICK chars : chars = [i \in DOMAIN values |-> charset[values[i] + 1]]
  OBVIOUS
<1>8. chars \in Seq(Nat) /\ Len(chars) = m /\ \A i \in 1 .. m : chars[i] = charset[values[i] + 1]
  <2>1. DOMAIN values = 1 .. m
    BY <1>6 DEF Quintets
  <2>2. ASSUME NEW i \in 1 .. m
        PROVE  charset[values[i] + 1] \in Nat
    <3>1. PICK x \in 0 .. 31 : x = values[i]
      BY <1>6, QuintetAt
    <3>2. PICK v \in 1 .. 32 : v = x + 1
      OBVIOUS
    <3>3. charset[v] \in Nat
      BY CharsetChars
    <3>4. v = values[i] + 1
      BY <3>1, <3>2
    <3>5. QED
      BY <3>3, <3>4, Zenon
  <2>3. chars = [i \in 1 .. m |-> charset[values[i] + 1]]
    BY <1>7, <2>1
  <2>4. chars \in [1 .. m -> Nat]
    BY <2>2, <2>3
  <2>5. QED
    BY <2>3, <2>4, Tabulated
<1>9. PICK e : e = bech32_encode(hrp, data)
  OBVIOUS
<1>10. /\ ~\E i \in DOMAIN hrp : hrp[i] \notin 33 .. 126 \/ IsUpper(hrp[i])
       /\ ~(Len(hrp) + 7 + Len(data) > 90)
       /\ e.data = hrp \o <<Separator>> \o chars
  <2>1. PICK bad : bad <=> \/ \E i \in DOMAIN hrp : hrp[i] \notin 33 .. 126 \/ IsUpper(hrp[i])
                          \/ Len(hrp) + 7 + Len(data) > 90
                          \/ \E i \in DOMAIN data : data[i] > 31
    OBVIOUS
  <2>2. e = IF bad THEN Failed
            ELSE [ok |-> TRUE, hrp |-> hrp, data |-> hrp \o <<Separator>> \o chars]
    BY <1>2, <1>4, <1>7, <1>9, <2>1 DEF bech32_encode, SumOfWord, ChecksumWord, Fifth
  <2>3. e.ok
    BY <1>9
  <2>4. ~bad
    BY <2>2, <2>3 DEF Failed
  <2>5. QED
    BY <2>1, <2>2, <2>4
<1>11. PICK front : front = hrp \o <<Separator>>
  OBVIOUS
<1>12. /\ front \in Seq(Nat) /\ Len(front) = h + 1 /\ front[h + 1] = Separator
       /\ \A i \in 1 .. h : front[i] = hrp[i]
  BY <1>1, <1>11 DEF Separator
<1>13. /\ e.data \in Seq(Nat) /\ Len(e.data) = h + 1 + m
       /\ \A i \in 1 .. h + 1 : e.data[i] = front[i]
       /\ \A i \in 1 .. m : e.data[h + 1 + i] = chars[i]
  <2>1. e.data = front \o chars
    BY <1>10, <1>11
  <2>2. PICK f \in Nat : f = h + 1
    OBVIOUS
  <2>3. Len(front) = f
    BY <1>12, <2>2
  <2>4. PICK s \in Seq(Nat) : JoinOf(s, front, chars, f, m)
    BY <1>8, <1>12, <2>3, JoinIs
  <2>5. s = e.data
    BY <2>1, <2>4 DEF JoinOf
  <2>6. QED
    BY <2>2, <2>4, <2>5 DEF JoinOf
<1>14. \A i \in 1 .. h : hrp[i] \in 33 .. 126 /\ ~IsUpper(hrp[i])
  <2>1. DOMAIN hrp = 1 .. h
    BY <1>1
  <2>2. QED
    BY <1>10, <2>1
<1>15. h + 1 + m <= 90
  BY <1>1, <1>5, <1>10
<1>16. /\ \A i \in 1 .. h : e.data[i] = hrp[i]
       /\ e.data[h + 1] = Separator
       /\ \A i \in 1 .. m : e.data[h + 1 + i] = charset[values[i] + 1]
  <2>1. ASSUME NEW i \in 1 .. h PROVE e.data[i] = hrp[i]
    <3>1. i \in 1 .. h + 1
      OBVIOUS
    <3>2. QED
      BY <1>12, <1>13, <3>1, Zenon
  <2>2. e.data[h + 1] = Separator
    <3>1. h + 1 \in 1 .. h + 1
      OBVIOUS
    <3>2. QED
      BY <1>12, <1>13, <3>1, Zenon
  <2>3. \A i \in 1 .. m : e.data[h + 1 + i] = charset[values[i] + 1]
    BY <1>8, <1>13, Zenon
  <2>4. QED
    BY <2>1, <2>2, <2>3
<1>17. m - 6 = l /\ Polymod(hrp, values) = {0}
  BY <1>3, <1>4, <1>5
<1>18. TextOf(e.data, hrp, data, h, m, values)
  BY <1>1, <1>5, <1>6, <1>13, <1>14, <1>15, <1>16, <1>17 DEF TextOf
<1>19. QED
  BY <1>6, <1>9, <1>18

\* A text in either case with the characters of another.
Copied(copy, code) ==
  /\ copy \in Seq(Nat) /\ Len(copy) = Len(code)
  /\ \A i \in 1 .. Len(code) : copy[i] \in 33 .. 126 /\ Lower(copy[i]) = code[i]
  /\ \/ \A i \in 1 .. Len(code) : ~IsLower(copy[i])
     \/ \A i \in 1 .. Len(code) : ~IsUpper(copy[i])

\* The parts of a text, and what bech32_decode has against it.
LastSeparator(code) ==
  CHOOSE i \in DOMAIN code :
    code[i] = Separator /\ \A j \in i + 1 .. Len(code) : code[j] # Separator
HrpOf(code) == SubSeq(code, 1, LastSeparator(code) - 1)
ValuesOf(code) ==
  [i \in 1 .. Len(code) - LastSeparator(code) |-> charset_rev[code[LastSeparator(code) + i]]]
Rejected(code) ==
  \/ Len(code) \notin 8 .. 90
  \/ ~\E i \in DOMAIN code : code[i] = Separator
  \/ LastSeparator(code) = 1 \/ Len(code) - LastSeparator(code) < 6
  \/ \E i \in DOMAIN code : code[i] \notin 33 .. 126
  \/ \E i \in DOMAIN ValuesOf(code) : ValuesOf(code)[i] = -1
  \/ (\E i \in DOMAIN code : IsLower(code[i])) /\ (\E i \in DOMAIN code : IsUpper(code[i]))
  \/ Polymod(HrpOf(code), ValuesOf(code)) # {0}

LEMMA DecodedAs ==
  ASSUME NEW code
  PROVE  bech32_decode(code) =
           IF Rejected(code) THEN Failed
           ELSE [ok |-> TRUE, hrp |-> [i \in DOMAIN HrpOf(code) |-> Lower(HrpOf(code)[i])],
                 data |-> SubSeq(ValuesOf(code), 1, Len(ValuesOf(code)) - 6)]
BY DEF bech32_decode, Rejected, HrpOf, ValuesOf, LastSeparator

\* It is decoded to what was encoded: the separator is the last there is, for
\* it is not of the charset.
LEMMA Bech32Back ==
  ASSUME NEW hrp \in Seq(Nat), hrp # <<>>, NEW data \in Quintets, bech32_encode(hrp, data).ok,
         NEW copy, Copied(copy, bech32_encode(hrp, data).data)
  PROVE  bech32_decode(copy) = [ok |-> TRUE, hrp |-> hrp, data |-> data]
<1>1. PICK code : code = bech32_encode(hrp, data).data
  OBVIOUS
<1>2. PICK h \in Nat, m \in Nat, values \in Quintets : TextOf(code, hrp, data, h, m, values)
  BY <1>1, TextEncoded
<1> USE DEF TextOf
<1>3. PICK n \in Nat : n = h + 1 + m /\ Len(code) = n
  BY <1>2
<1>4. /\ copy \in Seq(Nat) /\ Len(copy) = n /\ DOMAIN copy = 1 .. n
      /\ \A i \in 1 .. n : copy[i] \in 33 .. 126 /\ Lower(copy[i]) = code[i]
      /\ ~(/\ \E i \in 1 .. n : IsLower(copy[i])
           /\ \E i \in 1 .. n : IsUpper(copy[i]))
  BY <1>1, <1>3 DEF Copied
<1>5. n \in 8 .. 90 /\ m >= 6 /\ h > 0
  <2>1. PICK l \in Nat : l = Len(data) /\ m = l + 6
    BY <1>2, QuintetAt
  <2>2. h > 0 /\ h + 1 + m <= 90
    BY <1>2
  <2>3. n <= 90 /\ n >= 8
    BY <1>3, <2>1, <2>2
  <2>4. m >= 6
    BY <2>1
  <2>5. QED
    BY <2>2, <2>3, <2>4
<1>6. copy[h + 1] = Separator
  <2>1. h + 1 \in 1 .. n
    BY <1>3
  <2>2. Lower(copy[h + 1]) = Separator /\ copy[h + 1] \in 33 .. 126
    BY <1>2, <1>4, <2>1
  <2>3. QED
    BY <2>2, LowerSeparator
<1>7. ASSUME NEW j \in 1 .. m
      PROVE  charset_rev[copy[h + 1 + j]] = values[j] /\ copy[h + 1 + j] # Separator
  <2>1. PICK x \in 0 .. 31 : x = values[j]
    BY <1>2, QuintetAt
  <2>2. PICK c \in 33 .. 126, v \in 0 .. 31 :
          c = copy[h + 1 + j] /\ v = values[j] /\ Lower(c) = charset[v + 1]
    <3>1. h + 1 + j \in 1 .. n
      BY <1>3
    <3>2. copy[h + 1 + j] \in 33 .. 126 /\ Lower(copy[h + 1 + j]) = code[h + 1 + j]
      BY <1>4, <3>1
    <3>3. code[h + 1 + j] = charset[values[j] + 1]
      BY <1>2
    <3>4. QED
      BY <2>1, <3>2, <3>3
  <2>3. charset_rev[c] = v
    BY <2>2, RevOf
  <2>4. Lower(c) # Separator
    <3>1. PICK w \in 1 .. 32 : w = v + 1
      OBVIOUS
    <3>2. QED
      BY <2>2, <3>1, CharsetChars
  <2>5. QED
    BY <2>2, <2>3, <2>4, LowerSeparator
<1>8. PICK at : at = LastSeparator(copy)
  OBVIOUS
<1>9. ASSUME NEW j \in h + 2 .. n PROVE copy[j] # Separator
  <2>1. PICK k \in 1 .. m : j = h + 1 + k
    <3>1. j - (h + 1) \in 1 .. m /\ j = h + 1 + (j - (h + 1))
      BY <1>3
    <3>2. QED
      BY <3>1
  <2>2. QED
    BY <1>7, <2>1
<1>10. at = h + 1
  <2>1. h + 1 \in 1 .. n /\ \A j \in h + 1 + 1 .. n : copy[j] # Separator
    BY <1>3, <1>9
  <2>2. /\ at \in 1 .. n /\ copy[at] = Separator
        /\ \A j \in at + 1 .. n : copy[j] # Separator
    BY <1>4, <1>6, <1>8, <2>1 DEF LastSeparator
  <2>3. ~(at < h + 1)
    BY <1>6, <2>1, <2>2
  <2>4. ~(h + 1 < at)
    BY <2>1, <2>2
  <2>5. QED
    BY <2>2, <2>3, <2>4
<1>11. PICK front : front = SubSeq(copy, 1, at - 1) /\ front = HrpOf(copy)
  BY <1>8 DEF HrpOf
<1>12. /\ front \in Seq(Nat) /\ Len(front) = h /\ DOMAIN front = 1 .. h
       /\ \A i \in 1 .. h : front[i] = copy[i]
  BY <1>3, <1>4, <1>10, <1>11
<1>13. \A i \in 1 .. h : Lower(front[i]) = hrp[i] /\ Lower(hrp[i]) = hrp[i]
  <2>1. ASSUME NEW i \in 1 .. h PROVE Lower(copy[i]) = hrp[i] /\ ~IsUpper(hrp[i])
    <3>1. i \in 1 .. n
      BY <1>3
    <3>2. QED
      BY <1>2, <1>4, <3>1
  <2>2. QED
    BY <1>12, <2>1 DEF Lower
<1>14. PICK back : /\ back = [i \in 1 .. Len(copy) - at |-> charset_rev[copy[at + i]]]
                  /\ back = ValuesOf(copy)
  BY <1>8 DEF ValuesOf
<1>15. back = values
  <2>1. Len(copy) - at = m
    BY <1>3, <1>4, <1>10
  <2>2. back = [i \in 1 .. m |-> charset_rev[copy[h + 1 + i]]]
    BY <1>10, <1>14, <2>1
  <2>3. values = [i \in 1 .. m |-> values[i]]
    BY <1>2 DEF Quintets
  <2>4. QED
    BY <1>7, <2>2, <2>3
<1>16. Polymod(front, back) = {0}
  <2>1. HrpChecksum(front) = HrpChecksum(hrp)
    <3>1. Len(hrp) = h /\ \A i \in 1 .. h : Lower(front[i]) = Lower(hrp[i])
      BY <1>2, <1>13
    <3>2. QED
      BY <1>12, <3>1, HrpCase
  <2>2. QED
    BY <1>2, <1>15, <2>1 DEF Polymod
<1>17. [i \in DOMAIN front |-> Lower(front[i])] = hrp
  <2>1. hrp = [i \in 1 .. h |-> hrp[i]]
    BY <1>2
  <2>2. QED
    BY <1>12, <1>13, <2>1
<1>18. SubSeq(back, 1, Len(back) - 6) = data
  <2>1. PICK l \in Nat : l = Len(data) /\ m - 6 = l /\ m = l + 6
    BY <1>2 DEF Quintets
  <2>2. PICK s \in Seq(0 .. 31) : FrontOf(s, values, l)
    <3>1. values \in Seq(0 .. 31) /\ Len(values) = m
      BY <1>2 DEF Quintets
    <3>2. l \in 0 .. m
      BY <2>1
    <3>3. QED
      BY <3>1, <3>2, FrontIs
  <2>3. s = data
    <3>1. data \in Seq(0 .. 31)
      BY DEF Quintets
    <3>2. Len(s) = l /\ \A i \in 1 .. l : s[i] = data[i]
      BY <1>2, <2>1, <2>2 DEF FrontOf
    <3>3. QED
      BY <2>1, <3>1, <3>2
  <2>4. Len(back) - 6 = l
    BY <1>2, <1>15, <2>1
  <2>5. s = SubSeq(back, 1, l)
    BY <1>15, <2>2 DEF FrontOf
  <2>6. QED
    BY <2>3, <2>4, <2>5
<1>19. \A i \in DOMAIN back : back[i] # -1
  <2>1. \A i \in 1 .. Len(values) : values[i] \in 0 .. 31
    BY <1>2, QuintetAt
  <2>2. DOMAIN values = 1 .. Len(values)
    BY <1>2, QuintetAt
  <2>3. \A v \in 0 .. 31 : v # -1
    OBVIOUS
  <2>4. QED
    BY <1>15, <2>1, <2>2, <2>3, Zenon
<1>20. ~Rejected(copy)
  <2>1. Len(copy) \in 8 .. 90 /\ at # 1 /\ ~(Len(copy) - at < 6)
    BY <1>3, <1>4, <1>5, <1>10
  <2>2. \E i \in DOMAIN copy : copy[i] = Separator
    <3>1. h + 1 \in 1 .. n
      BY <1>3
    <3>2. QED
      BY <1>4, <1>6, <3>1
  <2>3. QED
    BY <1>4, <1>8, <1>11, <1>14, <1>16, <1>19, <2>1, <2>2 DEF Rejected
<1>21. QED
  BY <1>11, <1>14, <1>17, <1>18, <1>20, DecodedAs

LEMMA CharsetPlain ==
  ASSUME NEW v \in 1 .. 32
  PROVE  charset[v] \in 33 .. 126 /\ ~IsUpper(charset[v])
BY Charset, ThirtyTwo DEF IsUpper

\* A character of an encoded text is printable and not in upper case.
LEMMA PlainText ==
  ASSUME NEW hrp \in Seq(Nat), hrp # <<>>, NEW data \in Quintets, NEW code,
         bech32_encode(hrp, data).ok, code = bech32_encode(hrp, data).data
  PROVE  /\ code \in Seq(Nat) /\ code # <<>>
         /\ \A i \in 1 .. Len(code) : code[i] \in 33 .. 126 /\ ~IsUpper(code[i])
<1>1. PICK h \in Nat, m \in Nat, values \in Quintets : TextOf(code, hrp, data, h, m, values)
  BY TextEncoded
<1>2. PICK n \in Nat : n = h + 1 + m /\ Len(code) = n
  BY <1>1 DEF TextOf
<1>3. ASSUME NEW i \in 1 .. n PROVE code[i] \in 33 .. 126 /\ ~IsUpper(code[i])
  <2>1. CASE i <= h
    <3>1. i \in 1 .. h
      BY <2>1
    <3>2. QED
      BY <1>1, <3>1 DEF TextOf
  <2>2. CASE i = h + 1
    <3>1. code[i] = Separator
      BY <1>1, <2>2 DEF TextOf
    <3>2. QED
      BY <3>1 DEF Separator, IsUpper
  <2>3. CASE i > h + 1
    <3>1. PICK k \in 1 .. m : i = h + 1 + k
      <4>1. i - (h + 1) \in 1 .. m /\ i = h + 1 + (i - (h + 1))
        BY <1>2, <2>3
      <4>2. QED
        BY <4>1
    <3>2. PICK x \in 0 .. 31 : x = values[k]
      BY <1>1, QuintetAt DEF TextOf
    <3>3. PICK v \in 1 .. 32 : v = x + 1
      OBVIOUS
    <3>4. code[i] = charset[v]
      <4>1. code[h + 1 + k] = charset[values[k] + 1]
        BY <1>1 DEF TextOf
      <4>2. QED
        BY <3>1, <3>2, <3>3, <4>1
    <3>5. QED
      BY <3>4, CharsetPlain
  <2>4. i <= h \/ i = h + 1 \/ i > h + 1
    OBVIOUS
  <2>5. QED
    BY <2>1, <2>2, <2>3, <2>4, Zenon
<1>4. code \in Seq(Nat) /\ code # <<>>
  <2>1. code \in Seq(Nat) /\ n > 0
    BY <1>1, <1>2 DEF TextOf
  <2>2. QED
    BY <1>2, <2>1
<1>5. QED
  BY <1>2, <1>3, <1>4

\* A text in capitals.
InCapitals(s) == [i \in DOMAIN s |-> IF IsLower(s[i]) THEN s[i] - 32 ELSE s[i]]

LEMMA CapitalsTwice ==
  ASSUME NEW s
  PROVE  InCapitals(InCapitals(s)) = InCapitals(s)
BY DEF InCapitals, IsLower

\* It is a copy of itself, and so is it in capitals.
LEMMA TextCopied ==
  ASSUME NEW code \in Seq(Nat),
         \A i \in 1 .. Len(code) : code[i] \in 33 .. 126 /\ ~IsUpper(code[i])
  PROVE  Copied(code, code) /\ Copied(InCapitals(code), code)
<1>1. PICK n \in Nat : n = Len(code) /\ DOMAIN code = 1 .. n
  OBVIOUS
<1>2. \A c \in 33 .. 126 : ~IsUpper(c) => Lower(c) = c
  BY DEF Lower
<1>3. Copied(code, code)
  BY <1>2 DEF Copied
<1>4. PICK caps : caps = InCapitals(code)
  OBVIOUS
<1>5. caps = [i \in 1 .. n |-> IF IsLower(code[i]) THEN code[i] - 32 ELSE code[i]]
  BY <1>1, <1>4 DEF InCapitals
<1>6. \A c \in 33 .. 126 : ~IsUpper(c) =>
        \E d \in 33 .. 126 : /\ d = (IF IsLower(c) THEN c - 32 ELSE c)
                             /\ Lower(d) = c /\ ~IsLower(d) /\ d \in Nat
  BY DEF Lower, IsLower, IsUpper
<1>7. \A i \in 1 .. n : /\ caps[i] \in 33 .. 126 /\ Lower(caps[i]) = code[i]
                        /\ ~IsLower(caps[i]) /\ caps[i] \in Nat
  <2>1. ASSUME NEW i \in 1 .. n
        PROVE  /\ caps[i] \in 33 .. 126 /\ Lower(caps[i]) = code[i]
               /\ ~IsLower(caps[i]) /\ caps[i] \in Nat
    <3>1. PICK c \in 33 .. 126 : c = code[i] /\ ~IsUpper(c)
      BY <1>1
    <3>2. PICK d \in 33 .. 126 : /\ d = (IF IsLower(c) THEN c - 32 ELSE c)
                                 /\ Lower(d) = c /\ ~IsLower(d) /\ d \in Nat
      BY <1>6, <3>1
    <3>3. caps[i] = d
      BY <1>5, <3>1, <3>2
    <3>4. QED
      BY <3>1, <3>2, <3>3
  <2>2. QED
    BY <2>1
<1>8. caps \in Seq(Nat) /\ Len(caps) = n
  <2>1. caps \in [1 .. n -> Nat]
    BY <1>5, <1>7
  <2>2. QED
    BY <2>1, Tabulated, Zenon
<1>9. Copied(caps, code)
  BY <1>1, <1>7, <1>8 DEF Copied
<1>10. QED
  BY <1>3, <1>4, <1>9

\* The values of a witness program of version 0.
Witness(bytes) == <<0>> \o convert_bits(bytes, 8, 5, TRUE).out

LEMMA WitnessIs ==
  ASSUME NEW bytes \in Octets, Len(bytes) \in {20, 32}
  PROVE  /\ Witness(bytes) \in Quintets /\ Len(Witness(bytes)) \in 1 .. 65
         /\ Witness(bytes)[1] = 0
         /\ Tail(Witness(bytes)) = convert_bits(bytes, 8, 5, TRUE).out
<1>1. PICK G \in Nat, groups \in Quintets :
        /\ groups = convert_bits(bytes, 8, 5, TRUE).out /\ Len(groups) = G
        /\ G = (8 * Len(bytes) + 4) \div 5
  <2>1. Len(bytes) \in Nat
    BY DEF Octets
  <2>2. (8 * Len(bytes) + 4) \div 5 \in Nat
    BY <2>1
  <2>3. QED
    BY <2>2, OctetsBack
<1>2. G \in {32, 52}
  <2>1. PICK L \in {20, 32} : L = Len(bytes)
    OBVIOUS
  <2>2. G = (8 * L + 4) \div 5
    BY <1>1, <2>1
  <2>3. CASE L = 20
    BY <2>2, <2>3
  <2>4. CASE L = 32
    BY <2>2, <2>4
  <2>5. QED
    BY <2>3, <2>4
<1>0. PICK one \in Nat : one = 1
  OBVIOUS
<1>3. PICK first : one = 1 /\ first = <<0>>
  BY <1>0
<1>4. first \in Seq(0 .. 31) /\ Len(first) = one
  BY <1>3
<1>5. PICK w \in Seq(0 .. 31) : JoinOf(w, first, groups, one, G)
  BY <1>1, <1>4, JoinIs DEF Quintets
<1>6. w = Witness(bytes)
  BY <1>1, <1>3, <1>5 DEF JoinOf, Witness
<1>7. /\ Len(w) = 1 + G /\ w[1] = 0
      /\ \A i \in 1 .. G : w[1 + i] = groups[i]
  <2>1. 1 \in 1 .. one /\ first[1] = 0
    BY <1>3
  <2>2. QED
    BY <1>3, <1>5, <2>1 DEF JoinOf
<1>8. Tail(w) = groups
  <2>1. Tail(w) \in Seq(0 .. 31) /\ Len(Tail(w)) = G
    BY <1>7
  <2>2. \A i \in 1 .. G : Tail(w)[i] = w[i + 1]
    BY <1>7
  <2>3. \A i \in 1 .. G : Tail(w)[i] = groups[i]
    BY <1>7, <2>2
  <2>4. PICK u : u = Tail(w) /\ u = [i \in 1 .. G |-> u[i]]
    <3>1. PICK u \in Seq(0 .. 31) : u = Tail(w) /\ Len(u) = G
      BY <2>1
    <3>2. u \in Quintets
      BY DEF Quintets
    <3>3. u = [i \in 1 .. Len(u) |-> u[i]]
      BY <3>2, QuintetAt
    <3>4. QED
      BY <3>1, <3>3
  <2>5. groups = [i \in 1 .. G |-> groups[i]]
    BY <1>1, QuintetAt
  <2>6. QED
    BY <2>3, <2>4, <2>5
<1>9. w \in Quintets
  BY <1>5 DEF Quintets
<1>10. Len(w) \in 1 .. 65
  BY <1>2, <1>7
<1>11. QED
  BY <1>1, <1>6, <1>7, <1>8, <1>9, <1>10

\* What an encoder of witness programs makes, if it does.
LEMMA SegwitEncoded ==
  ASSUME NEW hrp, NEW bytes \in Octets, segwit_addr_encode(hrp, 0, bytes).ok
  PROVE  /\ Len(bytes) \in {20, 32} /\ ProgramSize(0, Len(bytes))
         /\ segwit_addr_encode(hrp, 0, bytes) = bech32_encode(hrp, Witness(bytes))
<1>1. segwit_addr_encode(hrp, 0, bytes) =
        IF 0 > 16 \/ ~ProgramSize(0, Len(bytes)) THEN Failed ELSE bech32_encode(hrp, Witness(bytes))
  BY DEF segwit_addr_encode, Witness
<1>2. ~(0 > 16)
  OBVIOUS
<1>3. ProgramSize(0, Len(bytes))
  BY <1>1 DEF Failed
<1>4. QED
  BY <1>1, <1>2, <1>3 DEF ProgramSize

LEMMA SegwitBack ==
  ASSUME NEW hrp \in Seq(Nat), hrp # <<>>, NEW bytes \in Octets,
         segwit_addr_encode(hrp, 0, bytes).ok,
         NEW copy, Copied(copy, segwit_addr_encode(hrp, 0, bytes).data)
  PROVE  /\ bech32_decode(copy).ok /\ bech32_decode(copy).hrp = hrp
         /\ segwit_addr_decode(hrp, copy) = [ok |-> TRUE, version |-> 0, program |-> bytes]
<1>1. PICK data : data = Witness(bytes)
  OBVIOUS
<1>2. /\ Len(bytes) \in {20, 32} /\ ProgramSize(0, Len(bytes))
      /\ segwit_addr_encode(hrp, 0, bytes) = bech32_encode(hrp, data)
  BY <1>1, SegwitEncoded
<1>3. /\ data \in Quintets /\ Len(data) \in 1 .. 65 /\ data[1] = 0
      /\ Tail(data) = convert_bits(bytes, 8, 5, TRUE).out
  BY <1>1, <1>2, WitnessIs
<1>4. PICK d : d = bech32_decode(copy)
  OBVIOUS
<1>5. d = [ok |-> TRUE, hrp |-> hrp, data |-> data]
  BY <1>2, <1>3, <1>4, Bech32Back
<1>6. PICK program : program = convert_bits(Tail(d.data), 5, 8, FALSE)
  OBVIOUS
<1>7. program = [ok |-> TRUE, out |-> bytes]
  BY <1>3, <1>5, <1>6, OctetsBack
<1>8. segwit_addr_decode(hrp, copy) =
        IF \/ ~d.ok \/ Len(d.data) \notin 1 .. 65 \/ d.hrp # hrp
           \/ d.data[1] > 16 \/ ~program.ok
           \/ ~ProgramSize(d.data[1], Len(program.out))
        THEN NoProgram
        ELSE [ok |-> TRUE, version |-> d.data[1], program |-> program.out]
  BY <1>4, <1>6 DEF segwit_addr_decode
<1>9. d.ok /\ Len(d.data) \in 1 .. 65 /\ d.hrp = hrp /\ program.ok
  BY <1>3, <1>5, <1>7
<1>10. d.data[1] = 0 /\ ~(d.data[1] > 16) /\ program.out = bytes
  BY <1>3, <1>5, <1>7
<1>11. ProgramSize(d.data[1], Len(program.out))
  BY <1>2, <1>10
<1>12. segwit_addr_decode(hrp, copy) = [ok |-> TRUE, version |-> d.data[1], program |-> program.out]
  BY <1>8, <1>9, <1>10, <1>11
<1>13. QED
  BY <1>4, <1>9, <1>10, <1>12

-----------------------------------------------------------------------------
(* The order of the search: positions are met in the order of their lists,   *)
(* and with each list the digits in theirs.                                  *)

\* r positions of 1 .. n, in their order.
Combinations(r, n) ==
  {k \in [1 .. r -> Nat] :
     \A i \in 1 .. r : /\ i <= k[i] /\ k[i] <= n - r + i
                       /\ \A j \in 1 .. r : i < j => k[i] < k[j]}

Digits(r) == [1 .. r -> 0 .. Radix - 1]

\* Positions are compared from the front, digits from behind.
Before(a, b, r) == \E i \in 1 .. r : a[i] < b[i] /\ \A j \in 1 .. i - 1 : a[j] = b[j]
Below(a, b, r)  == \E i \in 1 .. r : a[i] < b[i] /\ \A j \in i + 1 .. r : a[j] = b[j]

\* Where two lists differ, where first, and where last.
LEMMA DifferAt ==
  ASSUME NEW r \in Nat, NEW a \in [1 .. r -> Nat], NEW b \in [1 .. r -> Nat], a # b
  PROVE  \E i \in 1 .. r : a[i] # b[i]
<1>1. SUFFICES ASSUME \A i \in 1 .. r : a[i] = b[i] PROVE a = b
  OBVIOUS
<1>2. QED
  BY <1>1, SMT

LEMMA DifferFirst ==
  ASSUME NEW r \in Nat, NEW a \in [1 .. r -> Nat], NEW b \in [1 .. r -> Nat], a # b
  PROVE  \E i \in 1 .. r : a[i] # b[i] /\ \A j \in 1 .. i - 1 : a[j] = b[j]
<1> DEFINE D == {i \in 1 .. r : a[i] # b[i]}
<1>1. D # {} /\ D \in SUBSET Nat
  <2>1. \E i \in 1 .. r : a[i] # b[i]
    BY DifferAt
  <2>2. PICK i \in 1 .. r : i \in D
    BY <2>1
  <2>3. D \in SUBSET Nat
    OBVIOUS
  <2>4. QED
    <3> HIDE DEF D
    <3>1. QED
      BY <2>2, <2>3
<1>2. PICK i \in D : \A j \in D : i <= j
  BY <1>1, MinOfNats
<1>3. i \in 1 .. r /\ a[i] # b[i]
  BY <1>2
<1>4. \A j \in 1 .. i - 1 : a[j] = b[j]
  <2>1. SUFFICES ASSUME NEW j \in 1 .. i - 1 PROVE j \notin D
    BY <1>3
  <2>2. QED
    BY <1>2, <1>3
<1>5. QED
  BY <1>3, <1>4

LEMMA DifferLast ==
  ASSUME NEW r \in Nat, NEW a \in [1 .. r -> Nat], NEW b \in [1 .. r -> Nat], a # b
  PROVE  \E i \in 1 .. r : a[i] # b[i] /\ \A j \in i + 1 .. r : a[j] = b[j]
<1> DEFINE D == {i \in 1 .. r : a[i] # b[i]}
<1>1. D # {} /\ D \in SUBSET (1 .. r)
  <2>1. \E i \in 1 .. r : a[i] # b[i]
    BY DifferAt
  <2>2. PICK i \in 1 .. r : i \in D
    BY <2>1
  <2>3. D \in SUBSET (1 .. r)
    OBVIOUS
  <2>4. QED
    <3> HIDE DEF D
    <3>1. QED
      BY <2>2, <2>3
<1>2. PICK i \in D : \A j \in D : j <= i
  BY <1>1, MaxOfPart
<1>3. i \in 1 .. r /\ a[i] # b[i]
  BY <1>2
<1>4. \A j \in i + 1 .. r : a[j] = b[j]
  <2>1. SUFFICES ASSUME NEW j \in i + 1 .. r PROVE j \notin D
    BY <1>3
  <2>2. QED
    BY <1>2, <1>3
<1>5. QED
  BY <1>3, <1>4

\* The last of some places of 1 .. r, as Combination_next chooses it, and the
\* first, as the digits do.
LEMMA LastChosen ==
  ASSUME NEW r \in Nat, NEW M \in SUBSET (1 .. r), M # {}
  PROVE  LET i == CHOOSE i \in M : \A j \in M : j <= i
         IN  i \in M /\ \A j \in M : j <= i
<1>1. \E i \in M : \A j \in M : j <= i
  BY MaxOfPart
<1>2. QED
  BY <1>1

LEMMA FirstChosen ==
  ASSUME NEW r \in Nat, NEW M \in SUBSET (1 .. r), M # {}
  PROVE  LET i == CHOOSE i \in M : \A j \in M : i <= j
         IN  i \in M /\ \A j \in M : i <= j
<1>1. M \in SUBSET Nat
  OBVIOUS
<1>2. \E i \in M : \A j \in M : i <= j
  BY <1>1, MinOfNats
<1>3. QED
  BY <1>2

\* Combination_next (combination.c:20) keeps the positions increasing, and
\* leaves each of them the room it needs.
LEMMA NextCombinationStays ==
  ASSUME NEW n \in Nat, NEW r \in Nat, NEW k \in Combinations(r, n), Movable(k, n) # {}
  PROVE  Combination_next(k, n) \in Combinations(r, n)
<1> DEFINE M == Movable(k, n)
           i == CHOOSE i \in M : \A j \in M : j <= i
           next == Combination_next(k, n)
<1>1. /\ k \in [1 .. r -> Nat]
      /\ \A a \in 1 .. r : a <= k[a] /\ k[a] <= n - r + a
      /\ \A a, b \in 1 .. r : a < b => k[a] < k[b]
  BY DEF Combinations
<1>2. DOMAIN k = 1 .. r /\ Len(k) = r
  BY <1>1
<1>3. M = {a \in 1 .. r : k[a] < n - r + a}
  BY <1>2 DEF Movable
<1> HIDE DEF M
<1>4. i \in 1 .. r /\ k[i] < n - r + i
  BY <1>3, LastChosen DEF M
<1>5. next = [j \in 1 .. r |-> IF j < i THEN k[j] ELSE k[i] + 1 + (j - i)]
  BY <1>2 DEF Combination_next, M
<1> HIDE DEF i
<1>6. next \in [1 .. r -> Nat]
  BY <1>1, <1>4, <1>5
<1>7. ASSUME NEW m \in 1 .. r
      PROVE  m <= next[m] /\ next[m] <= n - r + m
  <2>1. CASE m < i
    BY <2>1, <1>1, <1>4, <1>5
  <2>2. CASE ~(m < i)
    <3>1. next[m] = k[i] + 1 + (m - i)
      BY <2>2, <1>5
    <3>2. i <= k[i]
      BY <1>1, <1>4
    <3>3. QED
      BY <2>2, <3>1, <3>2, <1>1, <1>4
  <2>3. QED
    BY <2>1, <2>2
<1>8. ASSUME NEW m \in 1 .. r, NEW j \in 1 .. r, m < j
      PROVE  next[m] < next[j]
  <2>1. CASE j < i
    BY <2>1, <1>1, <1>4, <1>5, <1>8
  <2>2. CASE m < i /\ ~(j < i)
    <3>1. next[m] = k[m] /\ next[j] = k[i] + 1 + (j - i)
      BY <2>2, <1>5
    <3>2. k[m] < k[i] /\ k[m] \in Nat /\ k[i] \in Nat
      BY <2>2, <1>1, <1>4
    <3>3. j - i \in Nat
      BY <2>2, <1>4
    <3>4. QED
      BY <3>1, <3>2, <3>3
  <2>3. CASE ~(m < i)
    <3>1. next[m] = k[i] + 1 + (m - i) /\ next[j] = k[i] + 1 + (j - i)
      BY <2>3, <1>4, <1>5, <1>8
    <3>2. QED
      BY <3>1, <1>1, <1>4, <1>8
  <2>4. QED
    BY <2>1, <2>2, <2>3, <1>4
<1> HIDE DEF next
<1>9. next \in Combinations(r, n)
  BY <1>6, <1>7, <1>8 DEF Combinations
<1>10. QED
  BY <1>9 DEF next

\* Nothing comes between a list of positions and the next one.
LEMMA CombinationNext ==
  ASSUME NEW n \in Nat, NEW r \in Nat, NEW k \in Combinations(r, n), Movable(k, n) # {},
         NEW l \in Combinations(r, n), Before(l, Combination_next(k, n), r)
  PROVE  l = k \/ Before(l, k, r)
<1> DEFINE M == Movable(k, n)
           i == CHOOSE i \in M : \A j \in M : j <= i
           next == Combination_next(k, n)
<1>1. /\ k \in [1 .. r -> Nat] /\ l \in [1 .. r -> Nat]
      /\ \A a \in 1 .. r : l[a] <= n - r + a /\ k[a] <= n - r + a
      /\ \A a, b \in 1 .. r : a < b => l[a] < l[b]
  BY DEF Combinations
<1>2. DOMAIN k = 1 .. r /\ Len(k) = r
  BY <1>1
<1>3. M = {a \in 1 .. r : k[a] < n - r + a}
  BY <1>2 DEF Movable
<1> HIDE DEF M
<1>4. i \in M /\ \A j \in M : j <= i
  BY <1>3, LastChosen DEF M
<1>5. next = [j \in 1 .. r |-> IF j < i THEN k[j] ELSE k[i] + 1 + (j - i)]
  BY <1>2 DEF Combination_next, M
<1> HIDE DEF i
<1>6. i \in 1 .. r /\ \A j \in i + 1 .. r : k[j] = n - r + j
  <2>1. i \in 1 .. r
    BY <1>3, <1>4
  <2>2. SUFFICES ASSUME NEW j \in i + 1 .. r PROVE k[j] = n - r + j
    BY <2>1
  <2>3. j \in 1 .. r /\ j \notin M
    BY <2>1, <2>2, <1>4
  <2>4. k[j] \in Nat /\ k[j] <= n - r + j /\ ~(k[j] < n - r + j)
    BY <2>3, <1>1, <1>3
  <2>5. QED
    BY <2>3, <2>4
<1>7. \A j \in 1 .. r : next[j] = IF j < i THEN k[j] ELSE k[i] + 1 + (j - i)
  BY <1>5
<1>8. PICK m \in 1 .. r : l[m] < next[m] /\ \A j \in 1 .. m - 1 : l[j] = next[j]
  BY DEF Before
<1> HIDE DEF next
<1>9. CASE m < i
  <2>1. l[m] < k[m] /\ \A j \in 1 .. m - 1 : l[j] = k[j]
    BY <1>6, <1>7, <1>8, <1>9
  <2>2. QED
    BY <2>1 DEF Before
<1>10. CASE m = i
  <2>1. l[i] \in Nat /\ k[i] \in Nat /\ l[i] <= k[i]
    BY <1>1, <1>6, <1>7, <1>8, <1>10
  <2>2. \A j \in 1 .. i - 1 : l[j] = k[j]
    BY <1>6, <1>7, <1>8, <1>10
  <2>3. SUFFICES ASSUME l # k PROVE Before(l, k, r)
    OBVIOUS
  <2>4. PICK a \in 1 .. r : l[a] # k[a] /\ \A j \in 1 .. a - 1 : l[j] = k[j]
    BY <1>1, <2>3, DifferFirst, Zenon
  <2>5. l[a] < k[a]
    <3>1. a = i \/ a \in i + 1 .. r
      BY <1>6, <2>2, <2>4
    <3>2. CASE a = i
      BY <2>1, <2>4, <3>2
    <3>3. CASE a \in i + 1 .. r
      <4>1. k[a] = n - r + a /\ l[a] <= n - r + a /\ l[a] \in Nat
        BY <1>1, <1>6, <3>3
      <4>2. QED
        BY <2>4, <4>1
    <3>4. QED
      BY <3>1, <3>2, <3>3
  <2>6. QED
    BY <2>4, <2>5 DEF Before
<1>11. CASE m > i
  <2>1. l[m - 1] = next[m - 1] /\ m - 1 \in 1 .. r /\ m - 1 < m
    BY <1>6, <1>8, <1>11
  <2>2. next[m - 1] = k[i] + 1 + (m - 1 - i) /\ next[m] = k[i] + 1 + (m - i) /\ k[i] \in Nat
    BY <1>1, <1>6, <1>7, <1>11, <2>1
  <2>3. l[m - 1] < l[m] /\ l[m] \in Nat
    BY <1>1, <2>1
  <2>4. QED
    BY <1>6, <1>8, <2>1, <2>2, <2>3
<1>12. QED
  BY <1>6, <1>9, <1>10, <1>11

\* If no position can move, the list is the last one.
LEMMA CombinationLast ==
  ASSUME NEW n \in Nat, NEW r \in Nat, NEW k \in Combinations(r, n), Movable(k, n) = {},
         NEW l \in Combinations(r, n)
  PROVE  l = k \/ Before(l, k, r)
<1>1. /\ k \in [1 .. r -> Nat] /\ l \in [1 .. r -> Nat]
      /\ \A a \in 1 .. r : l[a] <= n - r + a /\ k[a] <= n - r + a
  BY DEF Combinations
<1>2. DOMAIN k = 1 .. r /\ Len(k) = r
  BY <1>1
<1>3. \A a \in 1 .. r : k[a] = n - r + a
  <2>1. \A a \in 1 .. r : k[a] \in Nat /\ ~(k[a] < n - r + a)
    BY <1>1, <1>2 DEF Movable
  <2>2. QED
    <3>1. SUFFICES ASSUME NEW a \in 1 .. r PROVE k[a] = n - r + a
      OBVIOUS
    <3>2. k[a] \in Nat /\ k[a] <= n - r + a /\ ~(k[a] < n - r + a)
      BY <1>1, <2>1
    <3>3. QED
      BY <3>2
<1>4. SUFFICES ASSUME l # k PROVE Before(l, k, r)
  OBVIOUS
<1>5. PICK a \in 1 .. r : l[a] # k[a] /\ \A j \in 1 .. a - 1 : l[j] = k[j]
  BY <1>1, <1>4, DifferFirst
<1>6. l[a] < k[a]
  BY <1>1, <1>3, <1>5
<1>7. QED
  BY <1>5, <1>6 DEF Before

\* Nor between digits and the next ones.
LEMMA DigitsNext ==
  ASSUME NEW r \in Nat, NEW d \in Digits(r), Countable(d) # {}
  PROVE  /\ NextDigits(d) \in Digits(r)
         /\ \A e \in Digits(r) : Below(e, NextDigits(d), r) => e = d \/ Below(e, d, r)
<1> DEFINE M == Countable(d)
           i == CHOOSE i \in M : \A j \in M : i <= j
           next == NextDigits(d)
<1>1. Radix \in Nat /\ Radix > 1
  BY BaseAssumption
<1>2. d \in [1 .. r -> Nat] /\ DOMAIN d = 1 .. r /\ \A a \in 1 .. r : d[a] \in 0 .. Radix - 1
  BY <1>1 DEF Digits
<1>3. M = {a \in 1 .. r : d[a] < Radix - 1}
  BY <1>2 DEF Countable
<1> HIDE DEF M
<1>4. i \in M /\ \A j \in M : i <= j
  BY <1>3, FirstChosen DEF M
<1>5. next = [j \in 1 .. r |-> CASE j < i -> 0 [] j = i -> d[j] + 1 [] OTHER -> d[j]]
  BY <1>2 DEF NextDigits, M
<1> HIDE DEF i
<1>6. i \in 1 .. r /\ d[i] < Radix - 1 /\ \A j \in 1 .. i - 1 : d[j] = Radix - 1
  <2>1. i \in 1 .. r /\ d[i] < Radix - 1
    BY <1>3, <1>4
  <2>2. SUFFICES ASSUME NEW j \in 1 .. i - 1 PROVE d[j] = Radix - 1
    BY <2>1
  <2>3. j \in 1 .. r /\ j \notin M
    BY <2>1, <2>2, <1>4
  <2>4. d[j] \in 0 .. Radix - 1 /\ ~(d[j] < Radix - 1)
    BY <2>3, <1>2, <1>3
  <2>5. QED
    BY <1>1, <2>4
<1>7. \A j \in 1 .. r : next[j] = IF j < i THEN 0 ELSE IF j = i THEN d[j] + 1 ELSE d[j]
  BY <1>5, <1>6
<1>8. next \in Digits(r)
  <2>1. \A j \in 1 .. r : next[j] \in 0 .. Radix - 1
    BY <1>1, <1>2, <1>6, <1>7
  <2>2. next = [j \in 1 .. r |-> next[j]]
    BY <1>5
  <2>3. QED
    BY <2>1, <2>2 DEF Digits
<1> HIDE DEF next
<1>9. ASSUME NEW e \in Digits(r), Below(e, next, r)
      PROVE  e = d \/ Below(e, d, r)
  <2>1. e \in [1 .. r -> Nat] /\ \A a \in 1 .. r : e[a] \in 0 .. Radix - 1
    BY <1>1, <1>9 DEF Digits
  <2>2. PICK m \in 1 .. r : e[m] < next[m] /\ \A j \in m + 1 .. r : e[j] = next[j]
    BY <1>9 DEF Below
  <2>3. CASE m < i
    BY <1>7, <2>1, <2>2, <2>3
  <2>4. CASE m > i
    <3>1. e[m] < d[m] /\ \A j \in m + 1 .. r : e[j] = d[j]
      BY <1>6, <1>7, <2>2, <2>4
    <3>2. QED
      BY <3>1 DEF Below
  <2>5. CASE m = i
    <3>1. e[i] \in Nat /\ d[i] \in Nat /\ e[i] <= d[i]
      BY <1>2, <1>6, <1>7, <2>1, <2>2, <2>5
    <3>2. \A j \in i + 1 .. r : e[j] = d[j]
      BY <1>6, <1>7, <2>2, <2>5
    <3>3. SUFFICES ASSUME e # d PROVE Below(e, d, r)
      OBVIOUS
    <3>4. PICK a \in 1 .. r : e[a] # d[a] /\ \A j \in a + 1 .. r : e[j] = d[j]
      BY <1>2, <2>1, <3>3, DifferLast
    <3>5. e[a] < d[a]
      <4>1. a = i \/ a \in 1 .. i - 1
        BY <1>6, <3>2, <3>4
      <4>2. CASE a = i
        BY <3>1, <3>4, <4>2
      <4>3. CASE a \in 1 .. i - 1
        <5>1. d[a] = Radix - 1 /\ e[a] \in 0 .. Radix - 1
          BY <1>6, <2>1, <4>3
        <5>2. QED
          BY <1>1, <3>4, <5>1
      <4>4. QED
        BY <4>1, <4>2, <4>3
    <3>6. QED
      BY <3>4, <3>5 DEF Below
  <2>6. QED
    BY <1>6, <2>3, <2>4, <2>5
<1>10. QED
  BY <1>8, <1>9, Zenon DEF next

LEMMA DigitsLast ==
  ASSUME NEW r \in Nat, NEW d \in Digits(r), Countable(d) = {}, NEW e \in Digits(r)
  PROVE  e = d \/ Below(e, d, r)
<1>1. Radix \in Nat /\ Radix > 1
  BY BaseAssumption
<1>2. /\ d \in [1 .. r -> Nat] /\ e \in [1 .. r -> Nat] /\ DOMAIN d = 1 .. r
      /\ \A a \in 1 .. r : d[a] \in 0 .. Radix - 1 /\ e[a] \in 0 .. Radix - 1
  BY <1>1 DEF Digits
<1>3. \A a \in 1 .. r : d[a] = Radix - 1
  <2>1. \A a \in 1 .. r : ~(d[a] < Radix - 1)
    BY <1>2 DEF Countable
  <2>2. QED
    BY <1>1, <1>2, <2>1
<1>4. SUFFICES ASSUME e # d PROVE Below(e, d, r)
  OBVIOUS
<1>5. PICK a \in 1 .. r : e[a] # d[a] /\ \A j \in a + 1 .. r : e[j] = d[j]
  BY <1>2, <1>4, DifferLast
<1>6. e[a] < d[a]
  BY <1>1, <1>2, <1>3, <1>5
<1>7. QED
  BY <1>5, <1>6 DEF Below

-----------------------------------------------------------------------------
Searching == {"try", "overflow", "fixed"}

\* A base58check text is a sequence of characters all the way.
TextInv ==
  /\ source \in Sources
  /\ source.format = "base58check" =>
       /\ text \in Seq(Nat) /\ out \in Seq(Nat)
       /\ pc = "encode" => text = <<>>

\* The positions are those of the round, and lie in the text.
PositionsInv ==
  /\ fix.r \in 0 .. ChangeChars
  /\ fix = [r |-> fix.r, k |-> fix.k, digits |-> fix.digits]
  /\ pc \in Searching \cup {"round"} => source.format = "base58check"
  /\ fix.k \in [1 .. fix.r -> Nat]
  /\ pc \in Searching => fix.k \in Combinations(fix.r, Len(out))

FixInv == TextInv /\ PositionsInv

-----------------------------------------------------------------------------
\* What is left to write, and any beginning of it, is a text.
LEMMA RestIsText ==
  ASSUME text \in Seq(Nat), out \in Seq(Nat),
         NEW n \in 1 .. Len(text) - Len(out)
  PROVE  out \o SubSeq(RestOfText, 1, n) \in Seq(Nat)
<1>1. Len(text) \in Nat /\ Len(out) \in Nat
  BY LenProperties
<1>2. \A i \in Len(out) + 1 .. Len(text) : text[i] \in Nat
  BY <1>1, ElementOfSeq
<1>3. RestOfText \in Seq(Nat) /\ Len(RestOfText) = Len(text) - Len(out)
  BY <1>1, <1>2, SubSeqProperties DEF RestOfText
<1>4. \A i \in 1 .. n : RestOfText[i] \in Nat
  BY <1>1, <1>3, ElementOfSeq
<1>5. SubSeq(RestOfText, 1, n) \in Seq(Nat)
  BY <1>1, <1>4, SubSeqProperties
<1>6. QED
  BY <1>5, ConcatProperties

LEMMA TextInit == Init => TextInv
<1>1. <<>> \in Seq(Nat)
  BY EmptySeq
<1>2. QED
  BY <1>1 DEF Init, TextInv

LEMMA TextStep == TextInv /\ [Next]_vars => TextInv'
<1> SUFFICES ASSUME TextInv, [Next]_vars
             PROVE  TextInv'
  OBVIOUS
<1> USE DEF TextInv
<1>1. CASE Encode
  <2>1. source' = source /\ out' = out /\ pc' \in {"failed", "write"}
    BY <1>1 DEF Encode
  <2>2. text' = text \/ text' \in Encoded
    BY <1>1 DEF Encode
  <2>3. source.format = "base58check" =>
          Encoded = EncodeBase58Check(source.bytes)
    BY DEF Encoded
  <2>4. source.format = "base58check" => text' \in Seq(Nat)
    <3>1. SUFFICES ASSUME source.format = "base58check"
                   PROVE  EncodeBase58Check(source.bytes) \subseteq Seq(Nat)
      BY <2>2, <2>3
    <3>2. source.bytes \o Checksum(source.bytes) \in Bytes
      BY <3>1, SourceAssumption, Joined DEF Bytes
    <3>3. QED
      BY <3>2, Base58Typed DEF EncodeBase58Check
  <2>5. QED
    BY <2>1, <2>4
<1>2. CASE FwriteSafe
  <2>1. UNCHANGED <<source, text>> /\ pc = "write" /\ pc' # "encode"
    BY <1>2 DEF FwriteSafe
  <2>2. CASE out' = out
    BY <2>1, <2>2
  <2>3. CASE \E n \in 1 .. Len(text) - Len(out) :
               out' = out \o SubSeq(RestOfText, 1, n)
    BY <2>1, <2>3, RestIsText
  <2>4. QED
    BY <1>2, <2>2, <2>3 DEF FwriteSafe
<1>3. CASE Slip
  <2>1. UNCHANGED <<source, text, pc>> /\ out' \in Slipped
    BY <1>3 DEF Slip
  <2>2. ASSUME source.format = "base58check"
        PROVE  out' \in Seq(Nat)
    <3>1. PICK i \in DOMAIN out, c \in Alphabet(source) :
            out' = [out EXCEPT ![i] = c]
      BY <2>1, <2>2 DEF Slipped
    <3>2. c \in Nat /\ i \in 1 .. Len(out)
      BY <2>2, SourceAssumption, LenProperties
    <3>3. QED
      BY <3>1, <3>2, <2>2, ExceptSeq
  <2>3. QED
    BY <2>1, <2>2
<1>4. CASE Capitals
  BY <1>4 DEF Capitals
<1>5. CASE Decode
  BY <1>5 DEF Decode
<1>6. CASE NextRound
  BY <1>6 DEF NextRound
<1>7. CASE Try
  BY <1>7 DEF Try
<1>8. CASE NextCombination
  BY <1>8 DEF NextCombination
<1>9. CASE Done \/ UNCHANGED vars
  BY <1>9 DEF Done, vars
<1>10. QED
  BY <1>1, <1>2, <1>3, <1>4, <1>5, <1>6, <1>7, <1>8, <1>9 DEF Next, Program

-----------------------------------------------------------------------------
LEMMA PositionsInit == Init => PositionsInv
<1>1. <<>> \in [1 .. 0 -> Nat]
  BY EmptySeq, LenProperties
<1>2. QED
  BY <1>1, ChangeCharsAssumption DEF Init, PositionsInv, Searching

LEMMA PositionsStep == TextInv /\ PositionsInv /\ [Next]_vars => PositionsInv'
<1> SUFFICES ASSUME TextInv, PositionsInv, [Next]_vars
             PROVE  PositionsInv'
  OBVIOUS
<1> USE DEF PositionsInv, Searching
<1>1. CASE Encode
  BY <1>1 DEF Encode
<1>2. CASE FwriteSafe
  BY <1>2 DEF FwriteSafe
<1>3. CASE Slip
  BY <1>3 DEF Slip
<1>4. CASE Capitals
  BY <1>4 DEF Capitals
<1>5. CASE Decode
  BY <1>5 DEF Decode
<1>6. CASE NextRound
  <2>1. UNCHANGED <<source, out>> /\ source.format = "base58check"
    BY <1>6 DEF NextRound
  <2>2. CASE fix' = fix /\ pc' \in {"failed", "killed"}
    BY <2>1, <2>2
  <2>3. CASE pc' = "try" /\ ~(fix.r + 1 > ChangeChars)
             /\ ~(fix.r + 1 > Len(out))
             /\ fix' = [r |-> fix.r + 1, k |-> Combination_create(fix.r + 1),
                        digits |-> Zeros(fix.r + 1)]
    <3>1. fix'.r = fix.r + 1 /\ fix'.r \in 0 .. ChangeChars
      BY <2>3, ChangeCharsAssumption
    <3>2. fix'.k = [i \in 1 .. fix'.r |-> i]
      BY <2>3, <3>1 DEF Combination_create
    <3>3. Len(out') \in Nat /\ fix'.r <= Len(out')
      BY <2>1, <2>3, <3>1, LenProperties, ChangeCharsAssumption DEF TextInv
    <3>4. fix'.k \in Combinations(fix'.r, Len(out'))
      BY <3>1, <3>2, <3>3 DEF Combinations
    <3>5. fix' = [r |-> fix'.r, k |-> fix'.k, digits |-> fix'.digits]
      BY <2>3
    <3>6. fix'.k \in [1 .. fix'.r -> Nat]
      BY <3>1, <3>2
    <3>7. QED
      BY <2>1, <3>1, <3>4, <3>5, <3>6
  <2>4. QED
    BY <1>6, <2>2, <2>3 DEF NextRound, TooMany
<1>7. CASE Try
  <2>1. UNCHANGED <<source, out>> /\ pc = "try"
    BY <1>7 DEF Try
  <2>2. /\ fix'.r = fix.r /\ fix'.k = fix.k
        /\ fix' = [r |-> fix'.r, k |-> fix'.k, digits |-> fix'.digits]
    <3>1. CASE fix' = fix
      BY <3>1
    <3>2. CASE fix' = [fix EXCEPT !.digits = NextDigits(@)]
      BY <3>2
    <3>3. QED
      BY <1>7, <3>1, <3>2 DEF Try
  <2>3. QED
    BY <2>1, <2>2
<1>8. CASE NextCombination
  <2>1. UNCHANGED <<source, out>> /\ pc = "overflow"
        /\ source.format = "base58check" /\ Len(out) \in Nat
    BY <1>8, LenProperties DEF NextCombination, TextInv
  <2>2. CASE fix' = fix /\ pc' = "round"
    BY <2>1, <2>2
  <2>3. CASE /\ Movable(fix.k, Len(out)) # {} /\ pc' = "try"
             /\ fix' = [fix EXCEPT !.k = Combination_next(@, Len(out)),
                                   !.digits = Zeros(fix.r)]
    <3>1. fix'.r = fix.r /\ fix'.k = Combination_next(fix.k, Len(out))
          /\ fix' = [r |-> fix'.r, k |-> fix'.k, digits |-> fix'.digits]
      BY <2>3
    <3>2. fix'.k \in Combinations(fix.r, Len(out))
      <4>1. fix.r \in Nat /\ fix.k \in Combinations(fix.r, Len(out))
        BY <2>1, ChangeCharsAssumption
      <4>2. QED
        BY <2>1, <2>3, <3>1, <4>1, NextCombinationStays
    <3>3. fix'.k \in [1 .. fix.r -> Nat]
      BY <3>2 DEF Combinations
    <3>4. QED
      BY <2>1, <2>3, <3>1, <3>2, <3>3
  <2>4. QED
    BY <1>8, <2>2, <2>3 DEF NextCombination
<1>9. CASE Done \/ UNCHANGED vars
  BY <1>9 DEF Done, vars
<1>10. QED
  BY <1>1, <1>2, <1>3, <1>4, <1>5, <1>6, <1>7, <1>8, <1>9 DEF Next, Program

THEOREM FixInvariant == Spec => []FixInv
<1>1. Init => FixInv
  BY TextInit, PositionsInit DEF FixInv
<1>2. FixInv /\ [Next]_vars => FixInv'
  BY TextStep, PositionsStep DEF FixInv
<1>3. QED
  BY <1>1, <1>2, PTL DEF Spec

\* The search writes within the copy of the text it changes (base58.c:309).
THEOREM StaysInText == Spec => []PositionsInText
<1>1. FixInv => PositionsInText
  <2>1. SUFFICES ASSUME FixInv, pc \in Searching
                 PROVE  /\ \A i \in DOMAIN fix.k : fix.k[i] \in DOMAIN out
                        /\ \A i, j \in DOMAIN fix.k : i < j => fix.k[i] < fix.k[j]
    BY DEF PositionsInText, Searching
  <2>2. DOMAIN fix.k = 1 .. fix.r /\ fix.r \in Nat
    BY <2>1, ChangeCharsAssumption DEF FixInv, PositionsInv
  <2>3. DOMAIN out = 1 .. Len(out) /\ Len(out) \in Nat
    BY <2>1, LenProperties DEF FixInv, TextInv, PositionsInv
  <2>4. ASSUME NEW i \in 1 .. fix.r
        PROVE  fix.k[i] \in 1 .. Len(out)
    <3>1. fix.k[i] \in Nat /\ i <= fix.k[i] /\ fix.k[i] <= Len(out) - fix.r + i
      BY <2>1, <2>2 DEF FixInv, PositionsInv, Combinations
    <3>2. QED
      BY <2>2, <2>3, <3>1
  <2>5. QED
    BY <2>1, <2>2, <2>3, <2>4 DEF FixInv, PositionsInv, Combinations
<1>2. QED
  BY <1>1, FixInvariant, PTL

\* Every set of positions is listed.
LEMMA Listed ==
  ASSUME NEW R \in Nat
  PROVE  \A r \in 0 .. R : \A n \in Nat : \A S \in SUBSET (1 .. n) :
           Cardinality(S) = r => \E k \in Combinations(r, n) : S = {k[i] : i \in 1 .. r}
<1> DEFINE Lists(r) == \A n \in Nat : \A S \in SUBSET (1 .. n) :
             Cardinality(S) = r => \E k \in Combinations(r, n) : S = {k[i] : i \in 1 .. r}
           K == {r \in 0 .. R : Lists(r)}
<1>1. 0 \in K
  <2>1. SUFFICES ASSUME NEW n \in Nat, NEW S \in SUBSET (1 .. n), Cardinality(S) = 0
                 PROVE  \E k \in Combinations(0, n) : S = {k[i] : i \in 1 .. 0}
    OBVIOUS
  <2>2. IsFiniteSet(S)
    <3>1. IsFiniteSet(1 .. n)
      BY FS_Interval
    <3>2. QED
      BY <3>1, FS_Subset
  <2>3. S = {}
    BY <2>1, <2>2, FS_EmptySet
  <2>4. <<>> \in Combinations(0, n)
    BY DEF Combinations
  <2>5. QED
    BY <2>3, <2>4
<1>2. ASSUME NEW r \in 1 .. R, r - 1 \in K
      PROVE  r \in K
  <2>1. SUFFICES ASSUME NEW n \in Nat, NEW S \in SUBSET (1 .. n), Cardinality(S) = r
                 PROVE  \E k \in Combinations(r, n) : S = {k[i] : i \in 1 .. r}
    OBVIOUS
  <2>2. IsFiniteSet(S) /\ S # {}
    <3>1. IsFiniteSet(1 .. n)
      BY FS_Interval
    <3>2. IsFiniteSet(S)
      BY <3>1, FS_Subset
    <3>3. QED
      BY <2>1, <3>2, FS_EmptySet
  <2>3. PICK m \in S : \A s \in S : s <= m
    BY <2>2, MaxOfPart
  <2>4. m \in 1 .. n /\ m - 1 \in Nat /\ S \ {m} \in SUBSET (1 .. m - 1)
    BY <2>3
  <2>5. Cardinality(S \ {m}) = r - 1
    BY <2>1, <2>2, FS_RemoveElement
  <2>6. PICK l \in Combinations(r - 1, m - 1) : S \ {m} = {l[i] : i \in 1 .. r - 1}
    BY <1>2, <2>4, <2>5
  <2>7. /\ l \in [1 .. r - 1 -> Nat]
        /\ \A i \in 1 .. r - 1 : i <= l[i] /\ l[i] <= (m - 1) - (r - 1) + i
        /\ \A i, j \in 1 .. r - 1 : i < j => l[i] < l[j]
    BY <2>6 DEF Combinations
  <2>8. r <= m
    <3>1. CASE r = 1
      BY <2>4, <3>1
    <3>2. CASE r # 1
      <4>1. r - 1 \in 1 .. r - 1
        BY <3>2
      <4>2. r - 1 <= l[r - 1] /\ l[r - 1] \in Nat /\ l[r - 1] \in S \ {m}
        BY <2>6, <2>7, <4>1
      <4>3. l[r - 1] <= m - 1
        BY <2>4, <4>2
      <4>4. QED
        BY <2>4, <4>2, <4>3
    <3>3. QED
      BY <3>1, <3>2
  <2> DEFINE k == [i \in 1 .. r |-> IF i = r THEN m ELSE l[i]]
  <2>9. \A i \in 1 .. r : i = r \/ i \in 1 .. r - 1
    OBVIOUS
  <2>10. k \in [1 .. r -> Nat]
    BY <2>4, <2>7, <2>9
  <2>11. \A i \in 1 .. r : i <= k[i] /\ k[i] <= n - r + i
    <3>1. SUFFICES ASSUME NEW i \in 1 .. r PROVE i <= k[i] /\ k[i] <= n - r + i
      OBVIOUS
    <3>2. CASE i = r
      BY <2>4, <2>8, <3>2
    <3>3. CASE i \in 1 .. r - 1
      <4>1. k[i] = l[i] /\ l[i] \in Nat /\ i <= l[i] /\ l[i] <= (m - 1) - (r - 1) + i
        BY <2>7, <3>3
      <4>2. QED
        BY <2>4, <4>1
    <3>4. QED
      BY <2>9, <3>2, <3>3
  <2>12. \A i, j \in 1 .. r : i < j => k[i] < k[j]
    <3>1. SUFFICES ASSUME NEW i \in 1 .. r, NEW j \in 1 .. r, i < j PROVE k[i] < k[j]
      OBVIOUS
    <3>2. i \in 1 .. r - 1 /\ k[i] = l[i] /\ l[i] \in S \ {m}
      BY <2>6, <3>1
    <3>3. CASE j = r
      <4>1. k[j] = m /\ l[i] \in 1 .. m - 1
        BY <2>4, <3>2, <3>3
      <4>2. QED
        BY <2>4, <3>2, <4>1
    <3>4. CASE j \in 1 .. r - 1
      BY <2>7, <3>1, <3>2, <3>4
    <3>5. QED
      BY <2>9, <3>3, <3>4
  <2>13. S = {k[i] : i \in 1 .. r}
    <3>1. \A i \in 1 .. r : k[i] \in S
      BY <2>6, <2>9
    <3>2. ASSUME NEW s \in S PROVE \E i \in 1 .. r : s = k[i]
      <4>1. CASE s = m
        BY <4>1
      <4>2. CASE s # m
        <5>1. PICK i \in 1 .. r - 1 : s = l[i]
          BY <2>6, <4>2
        <5>2. i \in 1 .. r /\ k[i] = l[i]
          OBVIOUS
        <5>3. QED
          BY <5>1, <5>2
      <4>3. QED
        BY <4>1, <4>2
    <3>3. QED
      BY <3>1, <3>2
  <2> HIDE DEF k
  <2>14. k \in Combinations(r, n)
    BY <2>10, <2>11, <2>12 DEF Combinations
  <2>15. QED
    BY <2>13, <2>14
<1> HIDE DEF K
<1>3. \A r \in 0 .. R : r \in K
  BY <1>1, <1>2, PrefixInduction
<1>4. QED
  BY <1>3 DEF K

\* A text that differs in r characters is what the search makes of r positions.
LEMMA NearbyPlaced ==
  ASSUME out \in Seq(Nat), NEW r \in Nat, NEW t \in Nearby(r), ~(t \in Nearby(r - 1))
  PROVE  \E k \in Combinations(r, Len(out)), d \in Digits(r) : t = Place(out, k, d)
<1> DEFINE S == {i \in DOMAIN t : t[i] # out[i]}
<1>1. Len(out) \in Nat /\ DOMAIN out = 1 .. Len(out)
  OBVIOUS
<1>2. t \in [1 .. Len(out) -> 0 .. Radix - 1] /\ Distance(t, out) <= r
  BY <1>1 DEF Nearby
<1>3. S \in SUBSET (1 .. Len(out)) /\ IsFiniteSet(S) /\ Cardinality(S) \in Nat
  <2>1. S \in SUBSET (1 .. Len(out))
    BY <1>2
  <2>2. IsFiniteSet(1 .. Len(out))
    BY <1>1, FS_Interval
  <2>3. QED
    BY <2>1, <2>2, FS_Subset, FS_CardinalityType
<1>4. Cardinality(S) = r
  <2>1. Cardinality(S) <= r /\ ~(Cardinality(S) <= r - 1)
    BY <1>1, <1>2 DEF Nearby, Distance
  <2>2. QED
    BY <1>3, <2>1
<1>5. PICK k \in Combinations(r, Len(out)) : S = {k[i] : i \in 1 .. r}
  <2>1. r \in 0 .. r
    OBVIOUS
  <2> HIDE DEF S
  <2>2. \A n \in Nat : \A T \in SUBSET (1 .. n) :
          Cardinality(T) = r => \E k \in Combinations(r, n) : T = {k[i] : i \in 1 .. r}
    BY <2>1, Listed, Zenon
  <2>3. Cardinality(S) = r => \E k \in Combinations(r, Len(out)) : S = {k[i] : i \in 1 .. r}
    BY <1>1, <1>3, <2>2, Zenon
  <2>4. QED
    BY <1>4, <2>3
<1>6. k \in [1 .. r -> Nat] /\ \A i \in 1 .. r : k[i] \in 1 .. Len(out)
  BY <1>3, <1>5 DEF Combinations
<1> DEFINE d == [i \in 1 .. r |-> t[k[i]]]
<1>7. d \in Digits(r)
  BY <1>2, <1>6 DEF Digits
<1>8. ASSUME NEW p \in 1 .. Len(out) PROVE Place(out, k, d)[p] = t[p]
  <2>1. Place(out, k, d)[p] = IF \E i \in 1 .. r : k[i] = p
                              THEN d[CHOOSE i \in 1 .. r : k[i] = p] ELSE out[p]
    BY <1>1, <1>6 DEF Place
  <2>2. CASE \E i \in 1 .. r : k[i] = p
    <3>1. PICK m \in 1 .. r : m = (CHOOSE i \in 1 .. r : k[i] = p) /\ k[m] = p
      BY <2>2
    <3>2. QED
      BY <2>1, <2>2, <3>1
  <2>3. CASE ~\E i \in 1 .. r : k[i] = p
    <3>1. p \notin S
      BY <1>5, <2>3
    <3>2. QED
      BY <1>2, <2>1, <2>3, <3>1
  <2>4. QED
    BY <2>2, <2>3
<1>9. Place(out, k, d) = [p \in 1 .. Len(out) |-> Place(out, k, d)[p]]
  BY <1>1 DEF Place
<1>10. Place(out, k, d) = t
  BY <1>2, <1>8, <1>9
<1>11. QED
  BY <1>5, <1>7, <1>10

\* Of every text that was tried, or is nearer, it is known that it does not fit.
TriedInv ==
  /\ pc = "encode" => out = <<>>
  /\ pc \in {"encode", "write", "copy"} => fix.r = 0
  /\ pc = "round" => \A t \in Nearby(fix.r) : ~Fits(t)
  /\ pc \in Searching =>
       /\ fix.digits \in Digits(fix.r)
       /\ \A t \in Nearby(fix.r - 1) : ~Fits(t)
       /\ \A k \in Combinations(fix.r, Len(out)), d \in Digits(fix.r) :
            Before(k, fix.k, fix.r) => ~Fits(Place(out, k, d))
  /\ pc = "try" => \A d \in Digits(fix.r) :
                     Below(d, fix.digits, fix.r) => ~Fits(Place(out, fix.k, d))
  /\ pc = "overflow" => \A d \in Digits(fix.r) : ~Fits(Place(out, fix.k, d))
  /\ pc = "fixed" => read = DecodeBase58Check(Candidate)
  /\ (pc = "failed" /\ source.format = "base58check" /\ out # <<>>) =>
       \A t \in Nearby(ChangeChars) : ~Fits(t)

LEMMA Searched ==
  ASSUME FixInv, pc \in Searching
  PROVE  /\ out \in Seq(Nat) /\ Len(out) \in Nat /\ fix.r \in Nat
         /\ fix.k \in Combinations(fix.r, Len(out))
<1>1. source.format = "base58check"
  BY DEF FixInv, PositionsInv
<1>2. out \in Seq(Nat)
  BY <1>1 DEF FixInv, TextInv
<1>3. fix.r \in Nat
  BY ChangeCharsAssumption DEF FixInv, PositionsInv
<1>4. fix.k \in Combinations(fix.r, Len(out))
  BY DEF FixInv, PositionsInv
<1>5. QED
  BY <1>2, <1>3, <1>4

LEMMA TriedDecode ==
  ASSUME FixInv, TriedInv, Decode
  PROVE  TriedInv'
<1>1. UNCHANGED <<source, text, out, slips, fix>> /\ pc = "copy" /\ read' = Decoded
  BY DEF Decode
<1>2. pc' \in {"read", "killed", "round", "failed"}
  BY DEF Decode
<1>3. pc' = "failed" => source.format # "base58check" \/ out = <<>>
  BY <1>1 DEF Decode
<1>4. ASSUME pc' = "round"
      PROVE  \A t \in Nearby(fix.r) : ~Fits(t)
  <2>1. source.format = "base58check" /\ out # <<>> /\ read'.status # "ok"
    BY <1>1, <1>4 DEF Decode
  <2>2. ~Fits(out)
    BY <1>1, <2>1 DEF Decoded, Fits
  <2>3. out \in Seq(Nat) /\ fix.r = 0
    BY <1>1, <2>1 DEF FixInv, TextInv, TriedInv
  <2>4. SUFFICES ASSUME NEW t \in Nearby(0) PROVE t = out
    BY <2>2, <2>3
  <2> DEFINE S == {i \in DOMAIN t : t[i] # out[i]}
  <2>5. t \in [DOMAIN out -> 0 .. Radix - 1] /\ Cardinality(S) <= 0
    BY DEF Nearby, Distance
  <2>6. DOMAIN out = 1 .. Len(out) /\ Len(out) \in Nat
    BY <2>3
  <2>7. IsFiniteSet(S) /\ Cardinality(S) \in Nat
    <3>1. S \in SUBSET (1 .. Len(out)) /\ IsFiniteSet(1 .. Len(out))
      BY <2>5, <2>6, FS_Interval
    <3>2. QED
      BY <3>1, FS_Subset, FS_CardinalityType
  <2>8. S = {}
    BY <2>5, <2>7, FS_EmptySet
  <2>9. t = [i \in DOMAIN out |-> t[i]] /\ out = [i \in DOMAIN out |-> out[i]]
    BY <2>3, <2>5
  <2>10. \A i \in DOMAIN out : t[i] = out[i]
    BY <2>5, <2>8
  <2>11. QED
    BY <2>9, <2>10
<1>5. QED
  BY <1>1, <1>2, <1>3, <1>4 DEF TriedInv, Searching, Nearby, Fits

LEMMA TriedRound ==
  ASSUME FixInv, TriedInv, NextRound
  PROVE  TriedInv'
<1>1. UNCHANGED <<source, out, read>> /\ pc = "round" /\ source.format = "base58check"
  BY DEF NextRound, FixInv, PositionsInv
<1>2. \A t \in Nearby(fix.r) : ~Fits(t)
  BY <1>1 DEF TriedInv
<1>3. fix.r \in 0 .. ChangeChars /\ ChangeChars \in Nat
  BY ChangeCharsAssumption DEF FixInv, PositionsInv
<1>4. CASE pc' = "failed" /\ TooMany(fix.r + 1)
  <2>1. fix.r = ChangeChars
    BY <1>3, <1>4 DEF TooMany
  <2>2. QED
    BY <1>1, <1>2, <1>4, <2>1 DEF TriedInv, Searching, Nearby, Fits
<1>5. CASE pc' = "killed"
  BY <1>5 DEF TriedInv, Searching
<1>6. CASE /\ pc' = "try"
           /\ fix' = [r |-> fix.r + 1, k |-> Combination_create(fix.r + 1),
                      digits |-> Zeros(fix.r + 1)]
  <2> DEFINE r == fix.r + 1
  <2>1. /\ r \in Nat /\ fix'.r = r /\ fix'.r - 1 = fix.r
        /\ fix'.k = [i \in 1 .. r |-> i] /\ fix'.digits = [i \in 1 .. r |-> 0]
    BY <1>3, <1>6 DEF Combination_create, Zeros
  <2>2. fix'.digits \in Digits(r)
    BY <2>1, BaseAssumption DEF Digits
  <2>3. \A k \in Combinations(r, Len(out)) : ~Before(k, fix'.k, r)
    <3>1. SUFFICES ASSUME NEW k \in Combinations(r, Len(out)), NEW i \in 1 .. r, k[i] < i
                   PROVE  FALSE
      BY <2>1 DEF Before
    <3>2. k[i] \in Nat /\ i <= k[i]
      BY DEF Combinations
    <3>3. QED
      BY <3>1, <3>2
  <2>4. \A d \in Digits(r) : ~Below(d, fix'.digits, r)
    <3>1. SUFFICES ASSUME NEW d \in Digits(r), NEW i \in 1 .. r, d[i] < 0 PROVE FALSE
      BY <2>1 DEF Below
    <3>2. d[i] \in 0 .. Radix - 1
      BY DEF Digits
    <3>3. QED
      BY <3>1, <3>2, BaseAssumption
  <2> HIDE DEF r
  <2>5. QED
    BY <1>1, <1>2, <1>6, <2>1, <2>2, <2>3, <2>4 DEF TriedInv, Searching, Nearby, Fits
<1>7. QED
  BY <1>4, <1>5, <1>6 DEF NextRound

LEMMA TriedTry ==
  ASSUME FixInv, TriedInv, Try
  PROVE  TriedInv'
<1>1. UNCHANGED <<source, out>> /\ pc = "try" /\ pc \in Searching
  BY DEF Try, Searching
<1>2. /\ fix.r \in Nat /\ fix.digits \in Digits(fix.r)
      /\ \A d \in Digits(fix.r) :
           Below(d, fix.digits, fix.r) => ~Fits(Place(out, fix.k, d))
  BY <1>1, Searched DEF TriedInv
<1>3. CASE DecodeBase58Check(Candidate).status # "refused"
  <2>1. /\ read' = DecodeBase58Check(Candidate) /\ fix' = fix
        /\ pc' \in {"fixed", "killed"}
    BY <1>3 DEF Try
  <2>2. Candidate' = Candidate
    BY <1>1, <2>1 DEF Candidate
  <2>3. QED
    BY <1>1, <2>1, <2>2 DEF TriedInv, Searching, Nearby, Fits
<1>4. CASE DecodeBase58Check(Candidate).status = "refused"
  <2>1. ~Fits(Place(out, fix.k, fix.digits))
    BY <1>4 DEF Fits, Candidate
  <2>2. CASE Countable(fix.digits) # {}
    <3>1. /\ fix' = [fix EXCEPT !.digits = NextDigits(@)] /\ UNCHANGED <<read, pc>>
      BY <1>4, <2>2 DEF Try
    <3>2. fix'.r = fix.r /\ fix'.k = fix.k /\ fix'.digits = NextDigits(fix.digits)
      BY <3>1 DEF FixInv, PositionsInv
    <3>3. NextDigits(fix.digits) \in Digits(fix.r)
      BY <1>2, <2>2, DigitsNext
    <3>4. ASSUME NEW d \in Digits(fix.r), Below(d, NextDigits(fix.digits), fix.r)
          PROVE  ~Fits(Place(out, fix.k, d))
      <4>1. d = fix.digits \/ Below(d, fix.digits, fix.r)
        BY <1>2, <2>2, <3>4, DigitsNext
      <4>2. QED
        BY <1>2, <2>1, <4>1
    <3>5. QED
      BY <1>1, <3>1, <3>2, <3>3, <3>4 DEF TriedInv, Searching, Nearby, Fits
  <2>3. CASE Countable(fix.digits) = {}
    <3>1. pc' = "overflow" /\ UNCHANGED <<read, fix>>
      BY <1>4, <2>3 DEF Try
    <3>2. ASSUME NEW d \in Digits(fix.r)
          PROVE  ~Fits(Place(out, fix.k, d))
      <4>1. d = fix.digits \/ Below(d, fix.digits, fix.r)
        BY <1>2, <2>3, DigitsLast
      <4>2. QED
        BY <1>2, <2>1, <4>1
    <3>3. QED
      BY <1>1, <3>1, <3>2 DEF TriedInv, Searching, Nearby, Fits
  <2>4. QED
    BY <2>2, <2>3
<1>5. QED
  BY <1>3, <1>4

LEMMA TriedCombination ==
  ASSUME FixInv, TriedInv, NextCombination
  PROVE  TriedInv'
<1>1. UNCHANGED <<source, out, read>> /\ pc = "overflow" /\ pc \in Searching
  BY DEF NextCombination, Searching
<1>2. /\ out \in Seq(Nat) /\ Len(out) \in Nat /\ fix.r \in Nat
      /\ fix.k \in Combinations(fix.r, Len(out))
  BY <1>1, Searched
<1>3. /\ \A d \in Digits(fix.r) : ~Fits(Place(out, fix.k, d))
      /\ \A t \in Nearby(fix.r - 1) : ~Fits(t)
      /\ \A k \in Combinations(fix.r, Len(out)), d \in Digits(fix.r) :
           Before(k, fix.k, fix.r) => ~Fits(Place(out, k, d))
  BY <1>1 DEF TriedInv
<1>4. CASE Movable(fix.k, Len(out)) # {}
  <2>1. /\ pc' = "try"
        /\ fix' = [fix EXCEPT !.k = Combination_next(@, Len(out)), !.digits = Zeros(fix.r)]
    BY <1>4 DEF NextCombination
  <2>2. /\ fix'.r = fix.r /\ fix'.k = Combination_next(fix.k, Len(out))
        /\ fix'.digits = Zeros(fix.r)
    BY <2>1 DEF FixInv, PositionsInv
  <2>3. fix'.digits \in Digits(fix.r)
    BY <2>2, BaseAssumption DEF Digits, Zeros
  <2>4. ASSUME NEW k \in Combinations(fix.r, Len(out)), NEW d \in Digits(fix.r),
               Before(k, Combination_next(fix.k, Len(out)), fix.r)
        PROVE  ~Fits(Place(out, k, d))
    <3>1. k = fix.k \/ Before(k, fix.k, fix.r)
      BY <1>2, <1>4, <2>4, CombinationNext
    <3>2. QED
      BY <1>3, <3>1
  <2>5. \A d \in Digits(fix.r) : ~Below(d, fix'.digits, fix.r)
    <3>1. SUFFICES ASSUME NEW d \in Digits(fix.r), NEW i \in 1 .. fix.r, d[i] < 0 PROVE FALSE
      BY <2>2 DEF Below, Zeros
    <3>2. d[i] \in 0 .. Radix - 1
      BY DEF Digits
    <3>3. QED
      BY <3>1, <3>2, BaseAssumption
  <2>6. QED
    BY <1>1, <1>3, <2>1, <2>2, <2>3, <2>4, <2>5 DEF TriedInv, Searching, Nearby, Fits
<1>5. CASE Movable(fix.k, Len(out)) = {}
  <2>1. pc' = "round" /\ fix' = fix
    BY <1>5 DEF NextCombination
  <2>2. ASSUME NEW t \in Nearby(fix.r)
        PROVE  ~Fits(t)
    <3>1. CASE t \in Nearby(fix.r - 1)
      BY <1>3, <3>1
    <3>2. CASE ~(t \in Nearby(fix.r - 1))
      <4>1. PICK k \in Combinations(fix.r, Len(out)), d \in Digits(fix.r) :
              t = Place(out, k, d)
        BY <1>2, <3>2, NearbyPlaced
      <4>2. k = fix.k \/ Before(k, fix.k, fix.r)
        BY <1>2, <1>5, CombinationLast
      <4>3. QED
        BY <1>3, <4>1, <4>2
    <3>3. QED
      BY <3>1, <3>2
  <2>3. QED
    BY <1>1, <2>1, <2>2 DEF TriedInv, Searching, Nearby, Fits
<1>6. QED
  BY <1>4, <1>5

LEMMA TriedStep == FixInv /\ TriedInv /\ [Next]_vars => TriedInv'
<1> SUFFICES ASSUME FixInv, TriedInv, [Next]_vars
             PROVE  TriedInv'
  OBVIOUS
<1>1. CASE Encode
  BY <1>1 DEF Encode, TriedInv, Searching
<1>2. CASE FwriteSafe
  BY <1>2 DEF FwriteSafe, TriedInv, Searching
<1>3. CASE Slip
  BY <1>3 DEF Slip, TriedInv, Searching
<1>4. CASE Capitals
  BY <1>4 DEF Capitals, TriedInv, Searching
<1>5. CASE Done \/ UNCHANGED vars
  BY <1>5 DEF Done, vars, TriedInv, Searching, Nearby, Fits, Candidate
<1>6. QED
  BY <1>1, <1>2, <1>3, <1>4, <1>5, TriedDecode, TriedRound, TriedTry, TriedCombination
     DEF Next, Program

-----------------------------------------------------------------------------
\* The candidate differs from what was typed at the positions of the round only.
LEMMA FewChanged ==
  ASSUME FixInv, pc \in Searching
  PROVE  /\ Distance(out, Candidate) \in Nat /\ Distance(out, Candidate) <= fix.r
         /\ Distance(Candidate, out) = Distance(out, Candidate)
<1> DEFINE Moved == {fix.k[i] : i \in 1 .. fix.r}
           Changed == {p \in DOMAIN out : out[p] # Candidate[p]}
<1>1. fix.r \in Nat /\ fix.k \in [1 .. fix.r -> Nat]
  BY ChangeCharsAssumption DEF FixInv, PositionsInv
<1>2. Changed \subseteq Moved
  <2>1. SUFFICES ASSUME NEW p \in DOMAIN out, p \notin Moved
                 PROVE  Candidate[p] = out[p]
    OBVIOUS
  <2>2. ~\E i \in DOMAIN fix.k : fix.k[i] = p
    BY <2>1, <1>1
  <2>3. QED
    BY <2>2 DEF Candidate, Place
<1>3. IsFiniteSet(1 .. fix.r) /\ Cardinality(1 .. fix.r) = fix.r
  <2>1. 1 \in Int /\ fix.r \in Int
    BY <1>1
  <2>2. IsFiniteSet(1 .. fix.r)
        /\ Cardinality(1 .. fix.r) = IF 1 > fix.r THEN 0 ELSE fix.r - 1 + 1
    BY <2>1, FS_Interval
  <2>3. QED
    BY <1>1, <2>2
<1>4. fix.k \in Surjection(1 .. fix.r, Moved)
  BY <1>1 DEF Surjection
<1>5. IsFiniteSet(Moved) /\ Cardinality(Moved) <= fix.r
  BY <1>3, <1>4, FS_Surjection
<1>6. Cardinality(Changed) <= Cardinality(Moved)
  BY <1>2, <1>5, FS_Subset
<1>7. Cardinality(Changed) \in Nat /\ Cardinality(Moved) \in Nat
  BY <1>2, <1>5, FS_Subset, FS_CardinalityType
<1>8. Distance(out, Candidate) = Cardinality(Changed)
  BY DEF Distance
<1>9. Distance(Candidate, out) = Cardinality(Changed)
  <2>1. DOMAIN Candidate = DOMAIN out
    BY DEF Candidate, Place
  <2>2. {p \in DOMAIN Candidate : Candidate[p] # out[p]} = Changed
    BY <2>1
  <2>3. QED
    BY <2>2 DEF Distance
<1>10. QED
  BY <1>1, <1>5, <1>6, <1>7, <1>8, <1>9

\* A repaired text differs from what was typed in no more characters than the
\* user allowed (base58.c:290): only those at the positions are put in.
THEOREM ChangesFew == Spec => []FixChangesFew
<1>1. FixInv => FixChangesFew
  <2>1. SUFFICES ASSUME FixInv, pc = "fixed"
                 PROVE  Distance(out, Candidate) <= ChangeChars
    BY DEF FixChangesFew
  <2>2. fix.r \in Nat /\ fix.r <= ChangeChars
    BY <2>1, ChangeCharsAssumption DEF FixInv, PositionsInv
  <2>3. Distance(out, Candidate) \in Nat /\ Distance(out, Candidate) <= fix.r
    BY <2>1, FewChanged DEF Searching
  <2>4. QED
    BY <2>2, <2>3, ChangeCharsAssumption
<1>2. QED
  BY <1>1, FixInvariant, PTL

\* What is repaired is the nearest text that fits, and the search gives up only
\* if none fits within the changes allowed (base58.c:290-330).
THEOREM RepairNearest == Spec => []FixIsNearest
<1>1. Init => FixInv /\ TriedInv
  BY TextInit, PositionsInit DEF Init, FixInv, TriedInv, Searching
<1>2. FixInv /\ TriedInv /\ [Next]_vars => TriedInv'
  BY TriedStep
<1>3. FixInv /\ TriedInv => FixIsNearest
  <2>1. SUFFICES ASSUME FixInv, TriedInv, pc = "fixed", NEW t \in Nearby(Distance(Candidate, out) - 1)
                 PROVE  ~Fits(t)
    BY DEF FixIsNearest, TriedInv
  <2>2. /\ fix.r \in Nat /\ out \in Seq(Nat)
        /\ Distance(Candidate, out) \in Nat /\ Distance(Candidate, out) <= fix.r
    BY <2>1, FewChanged, Searched DEF Searching
  <2>3. t \in [DOMAIN out -> 0 .. Radix - 1] /\ Distance(t, out) <= Distance(Candidate, out) - 1
    BY <2>1 DEF Nearby
  <2>4. Distance(t, out) \in Nat
    <3>1. DOMAIN out = 1 .. Len(out) /\ Len(out) \in Nat
      BY <2>2
    <3>2. {i \in DOMAIN t : t[i] # out[i]} \in SUBSET (1 .. Len(out))
      BY <2>3, <3>1
    <3>3. IsFiniteSet(1 .. Len(out))
      BY <3>1, FS_Interval
    <3>4. QED
      BY <3>2, <3>3, FS_Subset, FS_CardinalityType DEF Distance
  <2>5. Distance(t, out) <= fix.r - 1
    BY <2>2, <2>3, <2>4
  <2>6. t \in Nearby(fix.r - 1)
    BY <2>3, <2>5 DEF Nearby
  <2>7. QED
    BY <2>1, <2>6 DEF TriedInv, Searching
<1>4. QED
  BY <1>1, <1>2, <1>3, FixInvariant, PTL DEF Spec

-----------------------------------------------------------------------------
(* A text that was written whole and copied without a slip.                  *)

\* What EncodeBase58 reads on behind.
NothingButZeros ==
  \/ source.format = "base58" /\ AllZero(source.bytes)
  \/ source.format = "base58check" /\ AllZero(source.bytes \o Checksum(source.bytes))

\* What a faultless copy is: the text, or that of an address in capitals.
Faultless ==
  \/ out = text
  \/ source.format = "bech32" /\ out = InCapitals(text)

KeepInv ==
  /\ source \in Sources
  /\ slips \in Nat
  /\ text # <<>> => text \in Encoded
  /\ pc = "encode" => text = <<>> /\ out = <<>>
  /\ pc = "write" => FrontOf(out, text, Len(out)) /\ Len(out) \in 0 .. Len(text)
  /\ pc = "copy" /\ slips = 0 => text # <<>> /\ Faultless
  /\ pc \notin {"encode", "write", "copy"} /\ slips = 0 =>
       text = <<>> \/ NothingButZeros \/ (pc = "read" /\ read.bytes = source.bytes)

\* The text of an address, if there is one.
LEMMA AddressText ==
  ASSUME source \in Sources, source.format = "bech32", NEW t \in Encoded
  PROVE  /\ t \in Seq(Nat)
         /\ \A i \in 1 .. Len(t) : t[i] \in 33 .. 126 /\ ~IsUpper(t[i])
<1>1. PICK hrp, bytes : hrp = source.hrp /\ bytes = source.bytes
  OBVIOUS
<1>2. hrp \in Seq(Nat) /\ hrp # <<>> /\ bytes \in Octets
  BY <1>1, SourceAssumption DEF Octets
<1>3. PICK e : e = segwit_addr_encode(hrp, 0, bytes)
  OBVIOUS
<1>4. e.ok /\ t = e.data
  BY <1>1, <1>3 DEF Encoded
<1>5. Len(bytes) \in {20, 32} /\ e = bech32_encode(hrp, Witness(bytes))
  BY <1>2, <1>3, <1>4, SegwitEncoded
<1>6. PICK data \in Quintets : data = Witness(bytes)
  BY <1>2, <1>5, WitnessIs
<1>7. bech32_encode(hrp, data).ok /\ t = bech32_encode(hrp, data).data
  BY <1>4, <1>5, <1>6
<1>8. QED
  BY <1>2, <1>7, PlainText

LEMMA HexTyped ==
  ASSUME NEW bytes \in Bytes
  PROVE  EncodeHex(bytes) \in Seq(Nat)
<1>1. PICK L \in Nat : L = Len(bytes)
  BY DEF Bytes
<1>2. PICK t : t = [i \in 1 .. 2 * L |->
                     LET b == bytes[(i + 1) \div 2]
                     IN IF i % 2 = 1 THEN b \div Nibble ELSE b % Nibble]
  OBVIOUS
<1>3. ASSUME NEW i \in 1 .. 2 * L
      PROVE  t[i] \in Nat
  <2>1. PICK j \in 1 .. L : j = (i + 1) \div 2
    OBVIOUS
  <2>2. bytes[j] \in 0 .. Byte - 1
    BY <1>1, ElementOfSeq DEF Bytes
  <2>3. PICK b \in Nat : b = bytes[j]
    BY <2>2, BaseAssumption
  <2>4. PICK N \in Nat : N = Nibble /\ N > 0
    BY BaseAssumption
  <2>5. b \div N \in Nat /\ b % N \in Nat
    BY <2>4
  <2>6. t[i] = b \div N \/ t[i] = b % N
    BY <1>2, <2>1, <2>3, <2>4
  <2>7. QED
    BY <2>5, <2>6
<1>4. t \in [1 .. 2 * L -> Nat]
  BY <1>2, <1>3
<1>5. EncodeHex(bytes) = t
  BY <1>1, <1>2 DEF EncodeHex
<1>6. t \in Seq(Nat)
  BY <1>4
<1>7. QED
  BY <1>5, <1>6

\* What is encoded is a sequence of characters.
LEMMA EncodedTyped ==
  ASSUME source \in Sources
  PROVE  Encoded \subseteq Seq(Nat)
<1>1. CASE source.format = "hex"
  <2>1. source.bytes \in Bytes /\ Encoded = {EncodeHex(source.bytes)}
    BY <1>1, SourceAssumption DEF Encoded, Bytes
  <2>2. QED
    BY <2>1, HexTyped
<1>2. CASE source.format = "base58"
  <2>1. source.bytes \in Bytes /\ Encoded = EncodeBase58(source.bytes)
    BY <1>2, SourceAssumption DEF Encoded, Bytes
  <2>2. QED
    BY <2>1, Base58Typed
<1>3. CASE source.format = "base58check"
  <2>1. source.bytes \o Checksum(source.bytes) \in Bytes
    BY <1>3, SourceAssumption, Joined DEF Bytes
  <2>2. Encoded = EncodeBase58(source.bytes \o Checksum(source.bytes))
    BY <1>3 DEF Encoded, EncodeBase58Check
  <2>3. QED
    BY <2>1, <2>2, Base58Typed
<1>4. CASE source.format = "bech32"
  <2>1. SUFFICES ASSUME NEW t \in Encoded PROVE t \in Seq(Nat)
    OBVIOUS
  <2>2. QED
    BY <1>4, <2>1, AddressText
<1>5. QED
  BY <1>1, <1>2, <1>3, <1>4, SourceAssumption

\* A faultless copy is read as what was written.
LEMMA FaultlessRead ==
  ASSUME source \in Sources, text \in Encoded, text # <<>>, Faultless, ~NothingButZeros
  PROVE  Decoded = Ok(source.bytes)
<1>1. CASE source.format = "hex"
  <2>1. source.bytes \in Bytes /\ text = EncodeHex(source.bytes) /\ out = text
    BY <1>1, SourceAssumption DEF Encoded, Bytes, Faultless
  <2>2. Decoded = DecodeHex(out)
    BY <1>1, <2>1 DEF Decoded
  <2>3. QED
    BY <2>1, <2>2, HexBack
<1>2. CASE source.format = "base58"
  <2>1. source.bytes \in Bytes /\ text \in EncodeBase58(source.bytes) /\ out = text
    BY <1>2, SourceAssumption DEF Encoded, Bytes, Faultless
  <2>2. ~AllZero(source.bytes)
    BY <1>2 DEF NothingButZeros
  <2>3. Decoded = DecodeBase58(out)
    BY <1>2, <2>1 DEF Decoded
  <2>4. QED
    BY <2>1, <2>2, <2>3, Base58Back
<1>3. CASE source.format = "base58check"
  <2>1. /\ source.bytes \in Bytes /\ text \in EncodeBase58Check(source.bytes) /\ out = text
        /\ Checksum(source.bytes) \in Bytes /\ Len(Checksum(source.bytes)) = CheckSize
    BY <1>3, SourceAssumption DEF Encoded, Bytes, Faultless
  <2>2. ~AllZero(source.bytes \o Checksum(source.bytes))
    BY <1>3 DEF NothingButZeros
  <2>3. Decoded = DecodeBase58Check(out)
    BY <1>3, <2>1 DEF Decoded
  <2>4. QED
    BY <2>1, <2>2, <2>3, Base58CheckBack
<1>4. CASE source.format = "bech32"
  <2>1. PICK hrp, bytes : hrp = source.hrp /\ bytes = source.bytes
    OBVIOUS
  <2>2. hrp \in Seq(Nat) /\ hrp # <<>> /\ bytes \in Octets
    BY <1>4, <2>1, SourceAssumption DEF Octets
  <2>3. PICK e : e = segwit_addr_encode(hrp, 0, bytes)
    OBVIOUS
  <2>4. e.ok /\ text = e.data
    BY <1>4, <2>1, <2>3 DEF Encoded
  <2>5. /\ text \in Seq(Nat)
        /\ \A i \in 1 .. Len(text) : text[i] \in 33 .. 126 /\ ~IsUpper(text[i])
    BY <1>4, AddressText
  <2>6. Copied(out, text)
    BY <2>5, TextCopied DEF Faultless
  <2>7. /\ bech32_decode(out).ok /\ bech32_decode(out).hrp = hrp
        /\ segwit_addr_decode(hrp, out) = [ok |-> TRUE, version |-> 0, program |-> bytes]
    BY <2>2, <2>3, <2>4, <2>6, SegwitBack
  <2>8. DecodeBech32 = Ok(bytes)
    BY <2>7 DEF DecodeBech32
  <2>9. out # <<>>
    <3>1. Len(out) = Len(text) /\ out \in Seq(Nat)
      BY <2>6 DEF Copied
    <3>2. QED
      BY <2>5, <3>1
  <2>10. QED
    BY <1>4, <2>1, <2>8, <2>9 DEF Decoded
<1>5. QED
  BY <1>1, <1>2, <1>3, <1>4, SourceAssumption

LEMMA SameText ==
  ASSUME NEW n \in Nat, NEW s \in Seq(Nat), NEW t \in Seq(Nat), Len(s) = n, Len(t) = n,
         \A i \in 1 .. n : s[i] = t[i]
  PROVE  s = t
OBVIOUS

\* One fwrite more, and the text that is out is a front of the whole still.
LEMMA WritesOn ==
  ASSUME text \in Seq(Nat), FrontOf(out, text, Len(out)), Len(out) \in 0 .. Len(text),
         NEW n \in 1 .. Len(text) - Len(out), NEW o, o = out \o SubSeq(RestOfText, 1, n)
  PROVE  /\ FrontOf(o, text, Len(o)) /\ Len(o) \in 1 .. Len(text)
         /\ Len(o) = Len(text) => o = text
<1>1. PICK L \in Nat, k \in Nat : L = Len(text) /\ k = Len(out) /\ k <= L
  OBVIOUS
<1>2. PICK old \in Seq(Nat) : FrontOf(old, text, k)
  BY <1>1, FrontIs
<1>3. old = out
  BY <1>1, <1>2 DEF FrontOf
<1>4. PICK l \in Nat : l = L - k /\ n \in 1 .. l
  <2>1. PICK l \in Nat : l = L - k
    <3>1. k <= L
      BY <1>1
    <3>2. L - k \in Nat
      BY <3>1
    <3>3. QED
      BY <3>2
  <2>2. l = Len(text) - Len(out)
    BY <1>1, <2>1, Zenon
  <2>3. n \in 1 .. l
    BY <2>2, Zenon
  <2>4. QED
    BY <2>1, <2>3
<1>5. PICK rest \in Seq(Nat) :
        rest = RestOfText /\ Len(rest) = l /\ \A i \in 1 .. l : rest[i] = text[k + i]
  <2>1. k + l = L
    BY <1>1, <1>4
  <2>2. PICK s \in Seq(Nat) : PartIn(s, text, k, l)
    <3>1. k + l <= Len(text)
      BY <1>1, <2>1
    <3>2. QED
      BY <3>1, PartIs
  <2>3. RestOfText = SubSeq(text, k + 1, k + l)
    BY <1>1, <2>1 DEF RestOfText
  <2>4. QED
    BY <2>2, <2>3 DEF PartIn
<1>6. PICK new \in Seq(Nat) : FrontOf(new, rest, n)
  BY <1>4, <1>5, FrontIs
<1>7. PICK s \in Seq(Nat) : JoinOf(s, old, new, k, n)
  <2>1. Len(old) = k /\ Len(new) = n
    BY <1>2, <1>6 DEF FrontOf
  <2>2. QED
    BY <2>1, JoinIs
<1>8. s = o
  BY <1>3, <1>5, <1>6, <1>7 DEF JoinOf, FrontOf
<1>9. PICK m \in Nat : m = k + n /\ m \in 1 .. L
  BY <1>4
<1>10. Len(s) = m
  BY <1>7, <1>9 DEF JoinOf
<1>11. ASSUME NEW i \in 1 .. m PROVE s[i] = text[i]
  <2>1. CASE i \in 1 .. k
    <3>1. s[i] = old[i] /\ old[i] = text[i]
      BY <1>2, <1>7, <2>1 DEF JoinOf, FrontOf
    <3>2. QED
      BY <3>1
  <2>2. CASE i \notin 1 .. k
    <3>1. PICK j \in 1 .. n : i = k + j
      <4>1. i - k \in 1 .. n /\ i = k + (i - k)
        BY <1>9, <2>2
      <4>2. QED
        BY <4>1
    <3>2. s[i] = new[j]
      BY <1>7, <3>1 DEF JoinOf
    <3>3. new[j] = rest[j]
      BY <1>6 DEF FrontOf
    <3>4. j \in 1 .. l
      BY <1>4
    <3>5. rest[j] = text[k + j]
      BY <1>5, <3>4
    <3>6. QED
      BY <3>1, <3>2, <3>3, <3>5
  <2>3. QED
    BY <2>1, <2>2
<1>12. PICK f \in Seq(Nat) : FrontOf(f, text, m)
  <2>1. m \in 0 .. L
    BY <1>9
  <2>2. QED
    BY <1>1, <2>1, FrontIs
<1>13. f = s
  <2>1. Len(f) = m /\ \A i \in 1 .. m : s[i] = f[i]
    BY <1>11, <1>12 DEF FrontOf
  <2>2. QED
    BY <1>10, <2>1, SameText
<1>14. m = L => s = text
  <2>1. SUFFICES ASSUME m = L PROVE s = text
    OBVIOUS
  <2>2. Len(text) = m /\ \A i \in 1 .. m : s[i] = text[i]
    BY <1>1, <1>11, <2>1
  <2>3. QED
    BY <1>10, <2>2, SameText
<1>15. QED
  BY <1>1, <1>8, <1>9, <1>10, <1>12, <1>13, <1>14

LEMMA KeepInit == Init => KeepInv
BY DEF Init, KeepInv

LEMMA KeepWrite ==
  ASSUME KeepInv, FwriteSafe
  PROVE  KeepInv'
<1>1. UNCHANGED <<source, text, read>> /\ pc = "write"
  BY DEF FwriteSafe
<1>2. Encoded' = Encoded
  BY <1>1 DEF Encoded
<1>3. /\ source \in Sources /\ slips \in Nat /\ (text # <<>> => text \in Encoded)
      /\ FrontOf(out, text, Len(out)) /\ Len(out) \in 0 .. Len(text)
  BY <1>1 DEF KeepInv
<1>4. text \in Seq(Nat)
  <2>1. <<>> \in Seq(Nat)
    OBVIOUS
  <2>2. QED
    BY <1>3, <2>1, EncodedTyped
<1>5. CASE /\ slips' = slips + 1 /\ pc' = "copy"
  BY <1>1, <1>2, <1>3, <1>5 DEF KeepInv
<1>6. ASSUME NEW n \in 1 .. Len(text) - Len(out),
             out' = out \o SubSeq(RestOfText, 1, n),
             pc' = IF Len(out') = Len(text) THEN "copy" ELSE "write",
             slips' = slips
      PROVE  KeepInv'
  <2>1. /\ FrontOf(out', text, Len(out')) /\ Len(out') \in 1 .. Len(text)
        /\ Len(out') = Len(text) => out' = text
    BY <1>3, <1>4, <1>6, WritesOn
  <2>2. text # <<>>
    <3>1. Len(text) # 0
      BY <1>4, <2>1
    <3>2. QED
      BY <3>1
  <2>3. Len(out') \in 0 .. Len(text)
    BY <1>4, <2>1
  <2>4. CASE Len(out') = Len(text)
    BY <1>1, <1>2, <1>3, <1>6, <2>1, <2>2, <2>4 DEF KeepInv, Faultless
  <2>5. CASE Len(out') # Len(text)
    BY <1>1, <1>2, <1>3, <1>6, <2>1, <2>3, <2>5 DEF KeepInv
  <2>6. QED
    BY <2>4, <2>5
<1>7. QED
  BY <1>5, <1>6 DEF FwriteSafe

LEMMA KeepEncode ==
  ASSUME KeepInv, Encode
  PROVE  KeepInv'
<1>1. /\ UNCHANGED <<source, out, slips, read>> /\ pc = "encode"
      /\ text = <<>> /\ out = <<>> /\ source \in Sources /\ slips \in Nat
  BY DEF Encode, KeepInv
<1>2. Encoded' = Encoded
  BY <1>1 DEF Encoded
<1>3. CASE text' = text /\ pc' = "failed"
  BY <1>1, <1>2, <1>3 DEF KeepInv
<1>4. CASE text' \in Encoded /\ pc' = "write"
  <2>1. text' \in Seq(Nat)
    BY <1>1, <1>4, EncodedTyped
  <2>2. PICK L \in Nat : L = Len(text')
    BY <2>1
  <2>3. 0 \in 0 .. L
    OBVIOUS
  <2>4. PICK s \in Seq(Nat) : FrontOf(s, text', 0)
    BY <2>1, <2>2, <2>3, FrontIs
  <2>5. s = <<>>
    BY <2>4 DEF FrontOf
  <2>6. Len(out') = 0 /\ FrontOf(out', text', Len(out')) /\ Len(out') \in 0 .. Len(text')
    BY <1>1, <2>2, <2>4, <2>5
  <2>7. QED
    BY <1>1, <1>2, <1>4, <2>6 DEF KeepInv
<1>5. QED
  BY <1>3, <1>4 DEF Encode

LEMMA KeepSlip ==
  ASSUME KeepInv, Slip
  PROVE  KeepInv'
<1>1. UNCHANGED <<source, pc, text, read>> /\ pc = "copy" /\ slips' = slips + 1
  BY DEF Slip
<1>2. Encoded' = Encoded
  BY <1>1 DEF Encoded
<1>3. QED
  BY <1>1, <1>2 DEF KeepInv

LEMMA KeepCapitals ==
  ASSUME KeepInv, Capitals
  PROVE  KeepInv'
<1>1. /\ UNCHANGED <<source, pc, text, slips, read>> /\ pc = "copy" /\ slips = 0
      /\ source.format = "bech32" /\ out' = InCapitals(out)
  BY DEF Capitals, InCapitals
<1>2. Encoded' = Encoded
  BY <1>1 DEF Encoded
<1>3. out' = InCapitals(text)
  BY <1>1, CapitalsTwice DEF KeepInv, Faultless
<1>4. Faultless'
  BY <1>1, <1>3 DEF Faultless
<1>5. QED
  BY <1>1, <1>2, <1>4 DEF KeepInv

LEMMA KeepDecode ==
  ASSUME KeepInv, Decode
  PROVE  KeepInv'
<1>1. /\ UNCHANGED <<source, text, out, slips>> /\ pc = "copy" /\ read' = Decoded
      /\ pc' \in {"read", "killed", "round", "failed"}
      /\ read'.status = "ok" => pc' = "read"
  BY DEF Decode
<1>2. Encoded' = Encoded /\ NothingButZeros' = NothingButZeros
  BY <1>1 DEF Encoded, NothingButZeros
<1>3. ASSUME slips = 0, ~NothingButZeros
      PROVE  pc' = "read" /\ read'.bytes = source.bytes
  <2>1. source \in Sources /\ text \in Encoded /\ text # <<>> /\ Faultless
    BY <1>1, <1>3 DEF KeepInv
  <2>2. read' = Ok(source.bytes)
    BY <1>1, <1>3, <2>1, FaultlessRead
  <2>3. QED
    BY <1>1, <2>2 DEF Ok
<1>4. QED
  BY <1>1, <1>2, <1>3 DEF KeepInv

\* The search is not begun, and the end does not change.
LEMMA KeepSearch ==
  ASSUME KeepInv, NextRound \/ Try \/ NextCombination
  PROVE  KeepInv'
<1>1. /\ UNCHANGED <<source, text, out, slips>> /\ pc \in {"round", "try", "overflow"}
      /\ pc' \notin {"encode", "write", "copy"}
  BY DEF NextRound, Try, NextCombination
<1>2. Encoded' = Encoded /\ NothingButZeros' = NothingButZeros
  BY <1>1 DEF Encoded, NothingButZeros
<1>3. QED
  BY <1>1, <1>2 DEF KeepInv

\* What is written whole and copied without a slip is read as what was written
\* (base58.c:48-180, segwit_addr.c:90-210, utility.c:30-75), whatever it is.
THEOREM WrittenIsKept == Spec => []KeepsWhatWasWritten
<1>1. Init => KeepInv
  BY KeepInit
<1>2. KeepInv /\ [Next]_vars => KeepInv'
  <2>1. SUFFICES ASSUME KeepInv, [Next]_vars PROVE KeepInv'
    OBVIOUS
  <2>2. CASE Done \/ UNCHANGED vars
    <3>1. UNCHANGED vars
      BY <2>2 DEF Done
    <3>2. Encoded' = Encoded /\ NothingButZeros' = NothingButZeros /\ Faultless' = Faultless
      BY <3>1 DEF vars, Encoded, NothingButZeros, Faultless
    <3>3. QED
      BY <2>1, <3>1, <3>2 DEF vars, KeepInv
  <2>3. QED
    BY <2>1, <2>2, KeepEncode, KeepWrite, KeepSlip, KeepCapitals, KeepDecode, KeepSearch
       DEF Next, Program
<1>3. KeepInv => KeepsWhatWasWritten
  BY DEF KeepInv, KeepsWhatWasWritten, NothingButZeros, Ended
<1>4. QED
  BY <1>1, <1>2, <1>3, PTL DEF Spec
=============================================================================
