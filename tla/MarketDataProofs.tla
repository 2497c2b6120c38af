-------------------------- MODULE MarketDataProofs --------------------------
(***************************************************************************)
(* The tables of minutes and of hours, for every limit, lag, length of an  *)
(* hour and set of minutes the exchange leaves out.                        *)
(***************************************************************************)
EXTENDS MarketData, DataLemmas, FiniteSetTheorems, SequenceTheorems

-----------------------------------------------------------------------------
(* The inductive invariant. *)

Rows == {"none", "closed", "open"}

TypeInv ==
  /\ clock \in 2 * Hour + 1 .. MaxTime
  /\ TableTick \in [Minutes -> Rows]
  /\ TableTickIndex \in Seq([ts : Nat, minutes : SUBSET Rows]) /\ TableTickIndex # <<>>
  /\ BlockPriceDict \in [Minutes -> Rows \cup {"unknown"}]
  /\ pc \in {"idle", "begin", "fetch", "store", "index", "merge"}
  /\ prevTs \in Nat /\ tmpN \in Nat
  /\ ret \in Seq([ts : Nat, is : Rows])
  /\ checked \in Nat /\ checked <= clock

\* The minutes stored are over, and the exchange has them all.
TicksOver ==
  /\ 2 * Hour <= GetBTCLastTs /\ GetBTCLastTs < clock
  /\ TicksClosed
  /\ \A m \in Halted : GetBTCLastTs < m

\* Hours are made from minutes stored.
HoursInTicks == HoursWhole /\ LastIndexTs <= GetBTCLastTs

\* What is asked for was over when it was counted.
Fetching ==
  pc = "fetch" =>
    prevTs = GetBTCLastTs /\ tmpN >= 2 /\ prevTs + tmpN <= clock

\* The klines still to be stored: at place j one that is j minutes later, and
\* then it was over, or one after a hole, which no row will be made of.
Storing ==
  pc = "store" =>
    /\ prevTs = GetBTCLastTs
    /\ \A j \in DOMAIN ret :
         /\ ret[j].ts \notin Halted
         /\ \/ ret[j].ts = prevTs + j /\ ret[j].is = "closed" /\ ret[j].ts < clock
            \/ ret[j].ts > prevTs + j

\* Past its last look at the clock a sync has stored all but the last Lag
\* minutes before that look.
CaughtUp == pc \in {"index", "merge"} => checked - Lag <= GetBTCLastTs

MarketInv == TypeInv /\ TicksOver /\ HoursInTicks /\ Fetching /\ Storing /\ CaughtUp
-----------------------------------------------------------------------------
(* The operators of the model. *)

\* The minutes stored end where the first empty row begins.
LEMMA LastStored ==
  ASSUME NEW tick, NEW last \in 0 .. MaxTime,
         \A m \in Minutes : IF m <= last THEN tick[m] = "closed" ELSE tick[m] = "none"
  PROVE  Min({m \in 1 .. MaxTime + 1 : m = MaxTime + 1 \/ tick[m] = "none"}) = last + 1
<1> DEFINE S == {m \in 1 .. MaxTime + 1 : m = MaxTime + 1 \/ tick[m] = "none"}
<1>1. MaxTime \in Nat
  BY MarketAssumption
<1>2. last + 1 \in S
  BY <1>1 DEF Minutes
<1>3. ASSUME NEW m \in S PROVE last + 1 <= m
  BY <1>1, <1>3 DEF Minutes
<1>4. S \in SUBSET Nat
  OBVIOUS
<1>5. Min(S) \in S /\ \A m \in S : Min(S) <= m
  BY <1>2, <1>4, MinOfNats
<1> HIDE DEF S
<1>6. Min(S) <= last + 1 /\ last + 1 <= Min(S) /\ Min(S) \in Nat
  BY <1>2, <1>3, <1>4, <1>5
<1>7. QED
  BY <1>6 DEF S

LEMMA LastType ==
  ASSUME TypeInv
  PROVE  GetBTCLastTs \in 0 .. MaxTime
<1> DEFINE S == {m \in 1 .. MaxTime + 1 : m = MaxTime + 1 \/ TableTick[m] = "none"}
<1>1. MaxTime \in Nat
  BY MarketAssumption
<1>2. MaxTime + 1 \in S /\ S \in SUBSET Nat
  BY <1>1
<1>3. Min(S) \in S
  BY <1>2, MinOfNats
<1>4. QED
  BY <1>1, <1>3 DEF GetBTCLastTs

\* A set of minutes has an i-th one, as long as it has i.
LEMMA NthIs ==
  ASSUME NEW S \in SUBSET Nat, NEW x \in Nat, \A u \in S : u <= x,
         NEW i \in 1 .. Cardinality(S)
  PROVE  /\ NthMinute(S, i) \in S
         /\ Cardinality({u \in S : u < NthMinute(S, i)}) = i - 1
<1> DEFINE Upto(t) == {u \in S : u <= t}
           Before(t) == {u \in S : u < t}
           Enough == {t \in S : Cardinality(Upto(t)) >= i}
<1>1. IsFiniteSet(S) /\ Cardinality(S) \in Nat /\ i \in Nat \ {0} /\ i <= Cardinality(S)
  BY FS_BoundedSetOfNaturals, FS_CardinalityType
<1>2. ASSUME NEW t \in S
      PROVE  /\ IsFiniteSet(Upto(t)) /\ IsFiniteSet(Before(t))
             /\ Cardinality(Upto(t)) \in Nat /\ Cardinality(Before(t)) \in Nat
             /\ Cardinality(Upto(t)) = Cardinality(Before(t)) + 1
  <2>1. Upto(t) \in SUBSET S /\ Before(t) \in SUBSET S
    OBVIOUS
  <2>2. IsFiniteSet(Upto(t)) /\ IsFiniteSet(Before(t))
    BY <1>1, <2>1, FS_Subset
  <2>3. Upto(t) = Before(t) \cup {t} /\ t \notin Before(t)
    <3>1. t \in Nat /\ \A u \in S : u <= t <=> u < t \/ u = t
      BY <1>2
    <3>2. ASSUME NEW u, u \in Upto(t)
          PROVE  u \in Before(t) \cup {t}
      <4>1. u \in S /\ u <= t
        BY <3>2
      <4>2. QED
        BY <3>1, <4>1
    <3>3. ASSUME NEW u, u \in Before(t) \cup {t}
          PROVE  u \in Upto(t)
      <4>1. u \in S /\ (u < t \/ u = t)
        BY <1>2, <3>3
      <4>2. QED
        BY <3>1, <4>1
    <3>4. t \notin Before(t)
      BY <3>1
    <3> HIDE DEF Upto, Before
    <3>5. QED
      BY <3>2, <3>3, <3>4
  <2> HIDE DEF Upto, Before
  <2>4. Cardinality(Upto(t)) = Cardinality(Before(t)) + 1
    BY <2>2, <2>3, FS_AddElement
  <2>5. QED
    BY <2>2, <2>4, FS_CardinalityType
<1>3. PICK b \in S : \A u \in S : u <= b
  <2>1. S # {}
    BY <1>1, FS_EmptySet
  <2>2. QED
    BY <2>1, MaxOfNats
<1>4. b \in Enough
  <2>1. Upto(b) = S
    BY <1>3
  <2>2. QED
    BY <1>1, <2>1
<1>5. PICK t \in Enough : \A u \in Enough : t <= u
  <2>1. Enough \in SUBSET Nat /\ Enough # {}
    BY <1>4
  <2>2. QED
    BY <2>1, MinOfNats
<1>6. t \in S /\ Cardinality(Upto(t)) >= i
  BY <1>5
<1>7. Cardinality(Before(t)) = i - 1
  <2>1. CASE Cardinality(Before(t)) >= i
    <3>1. Before(t) # {}
      BY <1>1, <2>1, FS_EmptySet
    <3>2. Before(t) \in SUBSET Nat /\ t \in Nat /\ \A u \in Before(t) : u <= t
      <4>1. t \in Nat /\ \A u \in Before(t) : u \in Nat /\ u < t
        BY <1>6
      <4>2. \A u \in Before(t) : u <= t
        BY <4>1
      <4> HIDE DEF Before
      <4>3. QED
        BY <4>1, <4>2
    <3>3. PICK v \in Before(t) : \A u \in Before(t) : u <= v
      <4> HIDE DEF Before
      <4>1. QED
        BY <3>1, <3>2, MaxOfNats
    <3>4. Upto(v) = Before(t) /\ v \in S /\ v < t
      <4>1. v \in S /\ v < t
        BY <3>3
      <4>2. ASSUME NEW u \in S PROVE u <= v <=> u < t
        BY <1>6, <3>3, <4>1, <4>2
      <4>3. QED
        BY <4>1, <4>2
    <3>5. v \in Enough
      BY <2>1, <3>4
    <3>6. t <= v
      BY <1>5, <3>5
    <3>7. QED
      BY <1>6, <3>4, <3>6
  <2>2. CASE ~(Cardinality(Before(t)) >= i)
    BY <1>1, <1>2, <1>6, <2>2
  <2>3. QED
    BY <2>1, <2>2
<1>8. \E u \in S : Cardinality({v \in S : v < u}) = i - 1
  BY <1>6, <1>7
<1>9. QED
  BY <1>8 DEF NthMinute
\* The exchange's klines are of minutes it has, in order: the i-th is at least
\* i - 1 minutes after the first.
LEMMA KlinesAre ==
  ASSUME NEW m \in Nat \ Halted, clock \in Nat, m <= clock
  PROVE  /\ Klines(m) \in Seq([ts : Nat, is : Rows]) /\ Len(Klines(m)) \in Nat \ {0}
         /\ \A i \in 1 .. Len(Klines(m)) :
              /\ Klines(m)[i].ts \in Nat \ Halted /\ m + i - 1 <= Klines(m)[i].ts
              /\ Klines(m)[i].ts < clock => Klines(m)[i].is = "closed"
<1> DEFINE S == (m .. clock) \ Halted
           row(i) == [ts |-> NthMinute(S, i),
                      is |-> IF NthMinute(S, i) < clock THEN "closed" ELSE "open"]
<1>1. /\ S \in SUBSET Nat /\ S # {} /\ \A u \in S : u <= clock
      /\ IsFiniteSet(S) /\ Cardinality(S) \in Nat \ {0}
  <2>1. S \in SUBSET Nat /\ m \in S /\ \A u \in S : u <= clock
    OBVIOUS
  <2> HIDE DEF S
  <2>2. IsFiniteSet(S)
    BY <2>1, FS_BoundedSetOfNaturals
  <2>3. QED
    BY <2>1, <2>2, FS_CardinalityType, FS_EmptySet
<1>2. Klines(m) = [i \in 1 .. Cardinality(S) |-> row(i)]
  BY DEF Klines
<1>3. ASSUME NEW i \in 1 .. Cardinality(S)
      PROVE  /\ NthMinute(S, i) \in Nat \ Halted
             /\ m + i - 1 <= NthMinute(S, i)
  <2> DEFINE t == NthMinute(S, i)
             before == {u \in S : u < t}
  <2>1. t \in S /\ Cardinality(before) = i - 1
    <3> HIDE DEF S
    <3>1. QED
      BY <1>1, NthIs
  <2>2. t \in Nat \ Halted /\ m <= t
    BY <2>1
  <2>3. before \in SUBSET (m .. t - 1)
    BY <2>2
  <2> HIDE DEF before, t
  <2>4. IsFiniteSet(m .. t - 1) /\ Cardinality(m .. t - 1) = t - m
    <3>1. m \in Int /\ t - 1 \in Int /\ t \in Int /\ m <= t
      BY <2>2
    <3>2. /\ IsFiniteSet(m .. t - 1)
          /\ Cardinality(m .. t - 1) = IF m > t - 1 THEN 0 ELSE (t - 1) - m + 1
      BY <3>1, FS_Interval
    <3>3. QED
      BY <3>1, <3>2
  <2>5. Cardinality(before) <= t - m
    BY <2>3, <2>4, FS_Subset
  <2>6. QED
    BY <1>1, <2>1, <2>2, <2>5 DEF t
<1> HIDE DEF S
<1>4. Klines(m) \in Seq([ts : Nat, is : Rows]) /\ Len(Klines(m)) = Cardinality(S)
  <2>1. \A i \in 1 .. Cardinality(S) : row(i) \in [ts : Nat, is : Rows]
    BY <1>3 DEF Rows
  <2>2. Klines(m) \in [1 .. Cardinality(S) -> [ts : Nat, is : Rows]]
    BY <1>2, <2>1
  <2>3. Klines(m) \in Seq([ts : Nat, is : Rows])
    <3> DEFINE N == Cardinality(S)
               Records == [ts : Nat, is : Rows]
    <3>1. N \in Nat /\ Klines(m) \in [1 .. N -> Records]
      BY <1>1, <2>2
    <3> HIDE DEF N, Records
    <3>2. Klines(m) \in Seq(Records)
      BY <3>1, SeqDef
    <3>3. QED
      BY <3>2 DEF Records
  <2>4. 1 .. Cardinality(S) = 1 .. Len(Klines(m)) /\ Len(Klines(m)) \in Nat
    BY <2>2, <2>3, LenProperties
  <2>5. Len(Klines(m)) = Cardinality(S)
    <3>1. Cardinality(S) \in 1 .. Len(Klines(m))
      BY <1>1, <2>4
    <3>2. Len(Klines(m)) \in 1 .. Cardinality(S)
      BY <2>4, <3>1
    <3>3. QED
      BY <1>1, <2>4, <3>1, <3>2
  <2>6. QED
    BY <2>3, <2>5
<1>5. QED
  BY <1>1, <1>2, <1>3, <1>4

-----------------------------------------------------------------------------
(* Every step keeps the invariant. *)

LEMMA SameTicks ==
  ASSUME UNCHANGED TableTick
  PROVE  GetBTCLastTs' = GetBTCLastTs /\ TicksClosed' = TicksClosed
BY DEF GetBTCLastTs, TicksClosed

LEMMA SameHours ==
  ASSUME UNCHANGED TableTickIndex
  PROVE  LastIndexTs' = LastIndexTs /\ HoursWhole' = HoursWhole
BY DEF LastIndexTs, HoursWhole

\* A step that leaves the tables and the clock alone has only to show where it
\* leaves the sync.
LEMMA LocalStep ==
  ASSUME MarketInv, UNCHANGED <<clock, TableTick, TableTickIndex>>,
         BlockPriceDict' \in [Minutes -> Rows \cup {"unknown"}],
         pc' \in {"idle", "begin", "fetch", "store", "index", "merge"},
         prevTs' \in Nat, tmpN' \in Nat, ret' \in Seq([ts : Nat, is : Rows]),
         checked' \in Nat, checked' <= clock,
         Fetching', Storing', CaughtUp'
  PROVE  MarketInv'
<1>1. TypeInv /\ TicksOver /\ HoursInTicks
  BY DEF MarketInv
<1>2. TypeInv'
  BY <1>1 DEF TypeInv
<1>3. TicksOver' /\ HoursInTicks'
  BY <1>1, SameTicks, SameHours DEF TicksOver, HoursInTicks
<1>4. QED
  BY <1>2, <1>3 DEF MarketInv

LEMMA MarketInit == ASSUME Init PROVE MarketInv
<1>1. /\ Hour \in Nat \ {0} /\ MaxTime \in Nat /\ MaxTime > 2 * Hour
      /\ 2 * Hour \in Nat /\ Halted \subseteq 2 * Hour + 1 .. MaxTime
  BY MarketAssumption
<1>2. GetBTCLastTs = 2 * Hour
  <2>1. 2 * Hour \in 0 .. MaxTime
    BY <1>1
  <2>2. \A m \in Minutes : IF m <= 2 * Hour THEN TableTick[m] = "closed" ELSE TableTick[m] = "none"
    BY DEF Init
  <2>3. Min({m \in 1 .. MaxTime + 1 : m = MaxTime + 1 \/ TableTick[m] = "none"}) = 2 * Hour + 1
    BY <2>1, <2>2, LastStored
  <2>4. QED
    BY <1>1, <2>3 DEF GetBTCLastTs
<1>3. TypeInv
  <2>1. TableTick \in [Minutes -> Rows]
    BY DEF Init, Rows
  <2>2. TableTickIndex \in Seq([ts : Nat, minutes : SUBSET Rows]) /\ TableTickIndex # <<>>
    <3>1. [ts |-> 2 * Hour, minutes |-> {"closed"}] \in [ts : Nat, minutes : SUBSET Rows]
      BY <1>1 DEF Rows
    <3>2. QED
      BY <3>1 DEF Init
  <2>3. BlockPriceDict \in [Minutes -> Rows \cup {"unknown"}]
    BY DEF Init
  <2>4. QED
    BY <1>1, <2>1, <2>2, <2>3 DEF Init, TypeInv
<1>4. TicksOver
  BY <1>1, <1>2 DEF Init, TicksOver, TicksClosed
<1>5. HoursInTicks
  BY <1>1, <1>2 DEF Init, HoursInTicks, HoursWhole, LastIndexTs, baseTickIndexTs
<1>6. Fetching /\ Storing /\ CaughtUp
  BY DEF Init, Fetching, Storing, CaughtUp
<1>7. QED
  BY <1>3, <1>4, <1>5, <1>6 DEF MarketInv

LEMMA TickStep == ASSUME MarketInv, Tick PROVE MarketInv'
<1>1. /\ TypeInv /\ TicksOver /\ HoursInTicks /\ Fetching /\ Storing /\ CaughtUp
      /\ MaxTime \in Nat /\ Hour \in Nat
  BY MarketAssumption DEF MarketInv
<1>2. /\ clock < MaxTime /\ clock' = clock + 1
      /\ UNCHANGED <<TableTick, TableTickIndex, BlockPriceDict, pc, prevTs, tmpN, ret, checked>>
  BY DEF Tick, mmaps, locals
<1>3. clock \in Nat /\ GetBTCLastTs \in Nat
  BY <1>1, LastType DEF TypeInv
<1>4. TypeInv'
  BY <1>1, <1>2 DEF TypeInv
<1>5. TicksOver' /\ HoursInTicks'
  BY <1>1, <1>2, <1>3, SameTicks, SameHours DEF TicksOver, HoursInTicks
<1>6. Fetching' /\ CaughtUp'
  BY <1>1, <1>2, <1>3, SameTicks DEF TypeInv, Fetching, CaughtUp
<1>7. Storing'
  <2>1. SUFFICES ASSUME pc = "store", NEW j \in DOMAIN ret
                 PROVE  /\ prevTs = GetBTCLastTs
                        /\ ret[j].ts \notin Halted
                        /\ \/ ret[j].ts = prevTs + j /\ ret[j].is = "closed" /\ ret[j].ts < clock + 1
                           \/ ret[j].ts > prevTs + j
    BY <1>1, <1>2, SameTicks DEF Storing
  <2>2. ret[j].ts \in Nat
    <3>1. ret \in Seq([ts : Nat, is : Rows])
      BY <1>1 DEF TypeInv
    <3>2. ret[j] \in [ts : Nat, is : Rows]
      BY <2>1, <3>1, ElementOfSeq, LenProperties
    <3>3. QED
      BY <3>2
  <2>3. QED
    BY <1>1, <1>3, <2>1, <2>2 DEF Storing
<1>8. QED
  BY <1>4, <1>5, <1>6, <1>7 DEF MarketInv

\* Where a sync ends, whichever way.
LEMMA Returned ==
  ASSUME MarketInv, NEW label \in {"idle", "merge"}, ReturnTo(label),
         UNCHANGED <<clock, TableTick, TableTickIndex>>,
         BlockPriceDict' \in [Minutes -> Rows \cup {"unknown"}],
         checked' \in Nat, checked' <= clock,
         label = "merge" => checked' - Lag <= GetBTCLastTs
  PROVE  MarketInv'
<1>1. pc' = label /\ prevTs' = 0 /\ tmpN' = 0 /\ ret' = <<>>
  BY DEF ReturnTo
<1>2. Fetching' /\ Storing'
  BY <1>1 DEF Fetching, Storing
<1>3. CaughtUp'
  BY <1>1, SameTicks DEF CaughtUp
<1>4. ret' \in Seq([ts : Nat, is : Rows])
  BY <1>1
<1>5. QED
  BY <1>1, <1>2, <1>3, <1>4, LocalStep

LEMMA BeginStep == ASSUME MarketInv, Begin PROVE MarketInv'
<1> DEFINE last == GetBTCLastTs
<1>1. /\ TypeInv /\ TicksOver
      /\ Limit \in Nat /\ Limit > 1 /\ Lag \in Nat \ {0}
  BY MarketAssumption DEF MarketInv
<1>2. /\ clock \in Nat /\ last \in Nat /\ last < clock
      /\ BlockPriceDict \in [Minutes -> Rows \cup {"unknown"}]
  BY <1>1, LastType DEF TypeInv, TicksOver
<1>3. /\ checked' = clock
      /\ UNCHANGED <<clock, TableTick, TableTickIndex, BlockPriceDict>>
  BY DEF Begin, mmaps
<1>4. /\ Asked \in {clock - last, Limit} /\ Asked <= clock - last /\ Asked <= Limit
  <2>1. {clock - last, Limit} \in SUBSET Nat /\ {clock - last, Limit} # {}
    BY <1>1, <1>2
  <2> HIDE DEF last
  <2>2. QED
    BY <2>1, MinOfNats DEF Asked, last
<1>5. CASE Asked <= 1
  <2>1. ReturnTo("merge")
    BY <1>5 DEF Begin
  <2>2. clock - Lag <= last
    BY <1>1, <1>2, <1>4, <1>5
  <2>3. QED
    BY <1>2, <1>3, <2>1, <2>2, Returned
<1>6. CASE ~(Asked <= 1)
  <2>1. /\ pc' = "fetch" /\ prevTs' = last /\ tmpN' = Asked
        /\ UNCHANGED ret
    BY <1>6 DEF Begin
  <2>2. Asked \in Nat /\ Asked >= 2 /\ last + Asked <= clock
    BY <1>1, <1>2, <1>4, <1>6
  <2>3. Fetching'
    BY <1>3, <2>1, <2>2, SameTicks DEF Fetching
  <2>4. Storing' /\ CaughtUp'
    BY <2>1 DEF Storing, CaughtUp
  <2>5. ret' \in Seq([ts : Nat, is : Rows])
    BY <1>1, <2>1 DEF TypeInv
  <2>6. QED
    BY <1>2, <1>3, <2>1, <2>2, <2>3, <2>4, <2>5, LocalStep
<1>7. QED
  BY <1>5, <1>6

LEMMA FetchStep == ASSUME MarketInv, Fetch PROVE MarketInv'
<1> DEFINE K == Klines(prevTs)
           k == Min({tmpN, Len(K)})
<1>1. /\ TypeInv /\ TicksOver /\ Fetching /\ pc = "fetch"
      /\ pc' = "store" /\ ret' = Tail(SubSeq(K, 1, k))
      /\ UNCHANGED <<clock, TableTick, TableTickIndex, BlockPriceDict, prevTs, tmpN, checked>>
  BY DEF MarketInv, Fetch, Answer, mmaps
<1>2. /\ prevTs = GetBTCLastTs /\ prevTs \in Nat \ Halted /\ clock \in Nat
      /\ prevTs + tmpN <= clock /\ tmpN \in Nat /\ tmpN >= 2
  <2>1. GetBTCLastTs \in Nat
    BY <1>1, LastType
  <2>2. GetBTCLastTs \notin Halted
    BY <1>1, <2>1 DEF TicksOver
  <2>3. QED
    BY <1>1, <2>1, <2>2 DEF TypeInv, Fetching
<1>3. /\ K \in Seq([ts : Nat, is : Rows]) /\ Len(K) \in Nat \ {0}
      /\ \A i \in 1 .. Len(K) :
           /\ K[i].ts \in Nat \ Halted /\ prevTs + i - 1 <= K[i].ts
           /\ K[i].ts < clock => K[i].is = "closed"
  <2>1. prevTs <= clock
    BY <1>2
  <2>2. QED
    BY <1>2, <2>1, KlinesAre
<1> HIDE DEF K
<1>4. k \in 1 .. Len(K) /\ k <= tmpN
  <2>1. {tmpN, Len(K)} \in SUBSET Nat /\ {tmpN, Len(K)} # {}
    BY <1>2, <1>3
  <2>2. k \in {tmpN, Len(K)} /\ k <= tmpN /\ k <= Len(K)
    BY <2>1, MinOfNats
  <2>3. QED
    BY <1>2, <1>3, <2>2
<1> HIDE DEF k
<1>5. /\ ret' \in Seq([ts : Nat, is : Rows]) /\ DOMAIN ret' = 1 .. k - 1
      /\ \A j \in 1 .. k - 1 : ret'[j] = K[j + 1]
  <2>1. /\ SubSeq(K, 1, k) \in Seq([ts : Nat, is : Rows]) /\ Len(SubSeq(K, 1, k)) = k
        /\ \A i \in 1 .. k : SubSeq(K, 1, k)[i] = K[i]
    <3>1. \A i \in 1 .. k : K[i] \in [ts : Nat, is : Rows]
      <4>1. ASSUME NEW i \in 1 .. k PROVE i \in 1 .. Len(K)
        BY <1>3, <1>4
      <4>2. QED
        BY <1>3, <4>1, ElementOfSeq
    <3>2. /\ SubSeq(K, 1, k) \in Seq([ts : Nat, is : Rows])
          /\ Len(SubSeq(K, 1, k)) = IF 1 <= k THEN k - 1 + 1 ELSE 0
          /\ \A i \in 1 .. k - 1 + 1 : SubSeq(K, 1, k)[i] = K[1 + i - 1]
      BY <1>4, <3>1, SubSeqProperties
    <3>3. k \in Nat /\ 1 <= k /\ k - 1 + 1 = k /\ \A i \in 1 .. k : 1 + i - 1 = i
      BY <1>3, <1>4
    <3>4. QED
      BY <3>2, <3>3
  <2>2. SubSeq(K, 1, k) # <<>> /\ k \in Nat \ {0}
    <3>1. k \in Nat \ {0}
      BY <1>3, <1>4
    <3>2. QED
      BY <2>1, <3>1
  <2>3. /\ ret' \in Seq([ts : Nat, is : Rows]) /\ Len(ret') = k - 1
        /\ \A j \in 1 .. k - 1 : ret'[j] = SubSeq(K, 1, k)[j + 1]
    BY <1>1, <2>1, <2>2, HeadTailProperties
  <2>4. \A j \in 1 .. k - 1 : j + 1 \in 1 .. k
    BY <2>2
  <2>5. QED
    BY <2>1, <2>3, <2>4, LenProperties
<1>6. Storing'
  <2>1. SUFFICES ASSUME NEW j \in 1 .. k - 1
                 PROVE  /\ ret'[j].ts \notin Halted
                        /\ \/ ret'[j].ts = prevTs + j /\ ret'[j].is = "closed" /\ ret'[j].ts < clock
                           \/ ret'[j].ts > prevTs + j
    BY <1>1, <1>2, <1>5, SameTicks DEF Storing
  <2>2. j \in Nat /\ j + 1 \in 1 .. Len(K) /\ ret'[j] = K[j + 1] /\ prevTs + j < clock
    <3>1. j \in Nat /\ j + 1 \in 1 .. Len(K) /\ j + 1 <= tmpN
      BY <1>2, <1>3, <1>4
    <3>2. QED
      BY <1>2, <1>5, <3>1
  <2>3. /\ ret'[j].ts \in Nat \ Halted /\ prevTs + j <= ret'[j].ts
        /\ ret'[j].ts < clock => ret'[j].is = "closed"
    BY <1>2, <1>3, <2>2
  <2>4. QED
    BY <1>2, <2>2, <2>3
<1>7. Fetching' /\ CaughtUp'
  BY <1>1 DEF Fetching, CaughtUp
<1>8. QED
  BY <1>1, <1>5, <1>6, <1>7, LocalStep DEF TypeInv
\* The rows of hours stored, and what the next one has.
LEMMA HoursType ==
  ASSUME TypeInv, HoursWhole
  PROVE  /\ Len(TableTickIndex) \in Nat \ {0}
         /\ DOMAIN TableTickIndex = 1 .. Len(TableTickIndex)
         /\ \A i \in 1 .. Len(TableTickIndex) :
              TableTickIndex[i] \in [ts : Nat, minutes : SUBSET Rows]
         /\ LastIndexTs = 2 * Hour + (Len(TableTickIndex) - 1) * Hour
         /\ LastIndexTs \in Nat /\ LastIndexTs >= 2 * Hour
         /\ ts2ind_findex(LastIndexTs + Hour) = Len(TableTickIndex) + 1
<1> DEFINE k == Len(TableTickIndex)
           R == [ts : Nat, minutes : SUBSET Rows]
<1>1. TableTickIndex \in Seq(R) /\ TableTickIndex # <<>> /\ Hour \in Nat \ {0}
  BY MarketAssumption DEF TypeInv
<1>2. /\ k \in Nat \ {0} /\ DOMAIN TableTickIndex = 1 .. k
      /\ \A i \in 1 .. k : TableTickIndex[i] \in R
  <2> HIDE DEF R
  <2>1. QED
    BY <1>1, EmptySeq, LenProperties, ElementOfSeq
<1>3. LastIndexTs = 2 * Hour + (k - 1) * Hour
  BY <1>2 DEF LastIndexTs, HoursWhole, baseTickIndexTs
<1> HIDE DEF k
<1>4. (k - 1) * Hour \in Nat
  BY <1>1, <1>2
<1>5. (LastIndexTs + Hour) - 2 * Hour = k * Hour /\ k * Hour \in Nat
  <2>1. (k - 1) * Hour = k * Hour - Hour /\ k * Hour \in Nat
    BY <1>1, <1>2
  <2>2. QED
    BY <1>1, <1>3, <2>1
<1>6. (k * Hour) \div Hour = k
  BY <1>1, <1>2
<1>7. ts2ind_findex(LastIndexTs + Hour) = k + 1
  BY <1>5, <1>6 DEF ts2ind_findex, baseTickIndexTs
<1>8. LastIndexTs \in Nat /\ LastIndexTs >= 2 * Hour
  BY <1>1, <1>3, <1>4
<1>9. QED
  BY <1>2, <1>3, <1>7, <1>8 DEF k

\* The row stored is of the minute after the last, over and not left out.
LEMMA StoreRowStep == ASSUME MarketInv, StoreRow PROVE MarketInv'
<1> DEFINE last == GetBTCLastTs
           R == [ts : Nat, is : Rows]
<1>1. /\ TypeInv /\ TicksOver /\ HoursInTicks /\ Storing /\ pc = "store"
      /\ ret # <<>> /\ Head(ret).ts > prevTs /\ ret' = Tail(ret)
      /\ UNCHANGED <<clock, TableTickIndex, BlockPriceDict, pc, tmpN, checked>>
      /\ MaxTime \in Nat /\ Hour \in Nat /\ Halted \subseteq Int
  BY MarketAssumption DEF MarketInv, StoreRow
<1>2. /\ ret \in Seq(R) /\ Len(ret) \in Nat \ {0} /\ DOMAIN ret = 1 .. Len(ret)
      /\ \A j \in 1 .. Len(ret) : ret[j] \in R
      /\ clock \in Nat /\ clock <= MaxTime
      /\ last \in Nat /\ last < clock /\ prevTs = last
  <2>1. ret \in Seq(R) /\ clock \in Nat /\ clock <= MaxTime /\ prevTs = last /\ last < clock
    BY <1>1 DEF TypeInv, Storing, TicksOver
  <2>2. last \in Nat
    BY <1>1, LastType
  <2> HIDE DEF last, R
  <2>3. QED
    BY <1>1, <2>1, <2>2, EmptySeq, LenProperties, ElementOfSeq
<1>3. /\ ret' \in Seq(R) /\ DOMAIN ret' = 1 .. Len(ret) - 1
      /\ \A j \in 1 .. Len(ret) - 1 : ret'[j] = ret[j + 1]
  <2> HIDE DEF R
  <2>1. /\ Tail(ret) \in Seq(R) /\ Len(Tail(ret)) = Len(ret) - 1
        /\ \A i \in 1 .. Len(Tail(ret)) : Tail(ret)[i] = ret[i + 1]
    BY <1>1, <1>2, HeadTailProperties
  <2>2. QED
    BY <1>1, <2>1, LenProperties
<1>4. \A j \in 1 .. Len(ret) :
        /\ ret[j].ts \in Nat /\ ret[j].ts \notin Halted
        /\ \/ ret[j].ts = last + j /\ ret[j].is = "closed" /\ ret[j].ts < clock
           \/ ret[j].ts > last + j
  BY <1>1, <1>2 DEF Storing
<1>5. Head(ret) = ret[1] /\ 1 \in 1 .. Len(ret)
  BY <1>2
<1>6. Fetching' /\ CaughtUp'
  BY <1>1 DEF Fetching, CaughtUp
<1>7. CASE Follows(Head(ret).ts)
  <2>1. /\ Head(ret).ts = last + 1 /\ Head(ret).is = "closed" /\ last + 1 < clock
        /\ last + 1 \notin Halted
    BY <1>2, <1>4, <1>5, <1>7 DEF Follows
  <2>2. /\ TableTick' = [TableTick EXCEPT ![last + 1] = "closed"]
        /\ prevTs' = last + 1
    BY <1>7, <2>1 DEF StoreRow
  <2>3. \A m \in Minutes :
          IF m <= last + 1 THEN TableTick'[m] = "closed" ELSE TableTick'[m] = "none"
    <3>1. SUFFICES ASSUME NEW m \in Minutes
                   PROVE  IF m <= last + 1 THEN TableTick'[m] = "closed"
                                           ELSE TableTick'[m] = "none"
      OBVIOUS
    <3>2. IF m <= last THEN TableTick[m] = "closed" ELSE TableTick[m] = "none"
      BY <1>1 DEF TicksOver, TicksClosed
    <3>3. m \in Nat /\ TableTick'[m] = IF m = last + 1 THEN "closed" ELSE TableTick[m]
      BY <1>1, <2>2 DEF TypeInv, Minutes
    <3>4. QED
      BY <1>2, <3>2, <3>3
  <2>4. GetBTCLastTs' = last + 1
    <3>1. last + 1 \in 0 .. MaxTime
      BY <1>1, <1>2, <2>1
    <3>2. Min({m \in 1 .. MaxTime + 1 : m = MaxTime + 1 \/ TableTick'[m] = "none"}) = (last + 1) + 1
      BY <2>3, <3>1, LastStored
    <3> HIDE DEF last
    <3>3. QED
      BY <1>2, <3>2 DEF GetBTCLastTs
  <2>5. TypeInv'
    <3>1. TableTick' \in [Minutes -> Rows]
      BY <1>1, <2>2 DEF TypeInv, Rows
    <3>2. QED
      BY <1>1, <1>2, <1>3, <2>2, <3>1 DEF TypeInv
  <2>6. TicksOver'
    <3>1. ASSUME NEW m \in Halted PROVE last + 1 < m
      <4>1. last < m /\ m \in Int /\ m # last + 1
        BY <1>1, <2>1 DEF TicksOver
      <4>2. QED
        BY <1>2, <4>1
    <3>2. 2 * Hour <= last + 1
      BY <1>1, <1>2 DEF TicksOver
    <3>3. QED
      BY <1>1, <2>1, <2>3, <2>4, <3>1, <3>2 DEF TicksOver, TicksClosed
  <2>7. HoursInTicks'
    <3>1. LastIndexTs \in Nat
      BY <1>1, HoursType DEF HoursInTicks
    <3>2. LastIndexTs <= last + 1
      BY <1>1, <1>2, <3>1 DEF HoursInTicks
    <3>3. QED
      BY <1>1, <2>4, <3>2, SameHours DEF HoursInTicks
  <2>8. Storing'
    <3>1. SUFFICES ASSUME NEW j \in 1 .. Len(ret) - 1
                   PROVE  /\ ret'[j].ts \notin Halted
                          /\ \/ /\ ret'[j].ts = (last + 1) + j /\ ret'[j].is = "closed"
                                /\ ret'[j].ts < clock
                             \/ ret'[j].ts > (last + 1) + j
      BY <1>1, <1>3, <2>2, <2>4 DEF Storing
    <3>2. j \in Nat /\ j + 1 \in 1 .. Len(ret) /\ ret'[j] = ret[j + 1]
      BY <1>2, <1>3
    <3>3. (last + 1) + j = last + (j + 1)
      BY <1>2, <3>2
    <3>4. QED
      BY <1>4, <3>2, <3>3
  <2>9. CaughtUp'
    BY <1>1 DEF CaughtUp
  <2>10. QED
    BY <1>6, <2>5, <2>6, <2>7, <2>8, <2>9 DEF MarketInv
<1>8. CASE ~Follows(Head(ret).ts)
  <2>1. UNCHANGED <<TableTick, prevTs>>
    BY <1>8 DEF StoreRow
  <2>2. Storing'
    <3>1. SUFFICES ASSUME NEW j \in 1 .. Len(ret) - 1
                   PROVE  ret'[j].ts \notin Halted /\ ret'[j].ts > last + j
      BY <1>1, <1>2, <1>3, <2>1, SameTicks DEF Storing
    <3>2. j \in Nat /\ j + 1 \in 1 .. Len(ret) /\ ret'[j] = ret[j + 1]
      BY <1>2, <1>3
    <3>3. /\ ret'[j].ts \in Nat /\ ret'[j].ts \notin Halted
          /\ ret'[j].ts = last + (j + 1) \/ ret'[j].ts > last + (j + 1)
      BY <1>4, <3>2
    <3>4. QED
      BY <1>2, <3>2, <3>3
  <2>3. QED
    BY <1>1, <1>3, <1>6, <2>1, <2>2, LocalStep DEF TypeInv
<1>9. QED
  BY <1>7, <1>8

LEMMA CheckStep == ASSUME MarketInv, Check PROVE MarketInv'
<1>1. /\ TypeInv /\ Storing /\ pc = "store" /\ ret = <<>> /\ Lag \in Nat
      /\ UNCHANGED <<clock, TableTick, TableTickIndex, BlockPriceDict, prevTs, tmpN, ret>>
      /\ checked' = clock
  BY MarketAssumption DEF MarketInv, Check, mmaps, locals
<1>2. PICK s \in {0, 1} : pc' = IF Behind(s) THEN "begin" ELSE "index"
  BY DEF Check
<1>3. clock \in Nat /\ prevTs = GetBTCLastTs /\ prevTs \in Nat
  BY <1>1 DEF TypeInv, Storing
<1>4. CaughtUp'
  <2>1. ASSUME ~Behind(s) PROVE clock - Lag <= prevTs
    BY <1>1, <1>2, <1>3, <2>1 DEF Behind
  <2>2. QED
    BY <1>1, <1>2, <1>3, <2>1, SameTicks DEF CaughtUp
<1>5. Fetching' /\ Storing'
  BY <1>2 DEF Fetching, Storing
<1>6. pc' \in {"begin", "index"}
  BY <1>2
<1>7. QED
  BY <1>1, <1>3, <1>4, <1>5, <1>6, LocalStep DEF TypeInv

\* An hour is made when all of its minutes are stored, and comes right after
\* the one before it.
LEMMA IndexRowStep == ASSUME MarketInv, IndexRow PROVE MarketInv'
<1> DEFINE k == Len(TableTickIndex)
           t == LastIndexTs + Hour
           row == [ts |-> t, minutes |-> {TableTick[m] : m \in t - Hour .. t}]
<1>1. /\ TypeInv /\ TicksOver /\ HoursInTicks /\ CaughtUp
      /\ pc = "index" /\ HourOver /\ calcFinanceIndex(t)
      /\ UNCHANGED <<clock, TableTick, BlockPriceDict, pc, prevTs, tmpN, ret, checked>>
      /\ Hour \in Nat \ {0} /\ MaxTime \in Nat
  BY MarketAssumption DEF MarketInv, IndexRow, locals
<1>2. /\ k \in Nat \ {0} /\ DOMAIN TableTickIndex = 1 .. k
      /\ \A i \in 1 .. k : TableTickIndex[i] \in [ts : Nat, minutes : SUBSET Rows]
      /\ LastIndexTs = 2 * Hour + (k - 1) * Hour
      /\ LastIndexTs \in Nat /\ LastIndexTs >= 2 * Hour
      /\ ts2ind_findex(t) = k + 1
  BY <1>1, HoursType DEF HoursInTicks
<1>3. GetBTCLastTs \in 0 .. MaxTime /\ t \in Nat /\ t <= GetBTCLastTs
  BY <1>1, <1>2, LastType DEF HourOver
<1>4. row.minutes = {"closed"}
  <2>1. ASSUME NEW m \in t - Hour .. t PROVE TableTick[m] = "closed"
    <3>1. m \in Minutes /\ m <= GetBTCLastTs
      BY <1>1, <1>2, <1>3 DEF Minutes
    <3>2. QED
      BY <1>1, <3>1 DEF TicksOver, TicksClosed
  <2>2. t \in t - Hour .. t
    BY <1>1, <1>3
  <2> HIDE DEF t
  <2>3. {TableTick[m] : m \in t - Hour .. t} = {"closed"}
    BY <2>1, <2>2
  <2>4. QED
    BY <2>3
<1>5. TableTickIndex' = [i \in 1 .. k + 1 |-> IF i = k + 1 THEN row ELSE TableTickIndex[i]]
  BY <1>1, <1>2 DEF calcFinanceIndex
<1>6. row \in [ts : Nat, minutes : SUBSET Rows] /\ row.ts = t
  BY <1>3, <1>4 DEF Rows
<1>7. t = 2 * Hour + ((k + 1) - 1) * Hour
  <2>1. (k - 1) * Hour + Hour = k * Hour /\ k * Hour \in Nat /\ (k - 1) * Hour \in Nat
    BY <1>1, <1>2
  <2>2. QED
    BY <1>1, <1>2, <2>1
<1> HIDE DEF k, t, row
<1>8. /\ TableTickIndex' \in Seq([ts : Nat, minutes : SUBSET Rows])
      /\ Len(TableTickIndex') = k + 1 /\ TableTickIndex' # <<>>
      /\ TableTickIndex'[k + 1] = row
  <2> DEFINE R == [ts : Nat, minutes : SUBSET Rows]
  <2> HIDE DEF R
  <2>1. \A i \in 1 .. k + 1 : i = k + 1 \/ i \in 1 .. k
    BY <1>2
  <2>2. TableTickIndex' \in [1 .. k + 1 -> R] /\ k + 1 \in Nat
    BY <1>2, <1>5, <1>6, <2>1 DEF R
  <2>3. TableTickIndex' \in Seq(R)
    BY <2>2, SeqDef
  <2>4. Len(TableTickIndex') \in Nat /\ 1 .. Len(TableTickIndex') = 1 .. k + 1
    BY <2>2, <2>3, LenProperties
  <2>5. Len(TableTickIndex') = k + 1
    <3>1. k + 1 \in 1 .. Len(TableTickIndex')
      BY <2>2, <2>4, <1>2
    <3>2. Len(TableTickIndex') \in 1 .. k + 1
      BY <2>4, <3>1
    <3>3. QED
      BY <1>2, <2>4, <3>1, <3>2
  <2>6. TableTickIndex'[k + 1] = row
    BY <1>2, <1>5
  <2>7. TableTickIndex' # <<>>
    BY <1>2, <2>5, EmptySeq
  <2>8. QED
    BY <2>3, <2>5, <2>6, <2>7 DEF R
<1>9. TypeInv'
  BY <1>1, <1>8 DEF TypeInv
<1>10. TicksOver'
  BY <1>1, SameTicks DEF TicksOver
<1>11. HoursInTicks'
  <2>1. ASSUME NEW i \in 1 .. k + 1
        PROVE  /\ TableTickIndex'[i].ts = 2 * Hour + (i - 1) * Hour
               /\ TableTickIndex'[i].minutes = {"closed"}
    <3>1. CASE i = k + 1
      BY <1>4, <1>6, <1>7, <1>8, <3>1
    <3>2. CASE i # k + 1
      <4>1. i \in 1 .. k /\ TableTickIndex'[i] = TableTickIndex[i]
        BY <1>2, <1>5, <3>2
      <4>2. QED
        BY <1>1, <1>2, <4>1 DEF HoursInTicks, HoursWhole, baseTickIndexTs
    <3>3. QED
      BY <3>1, <3>2
  <2>2. LastIndexTs' = t
    BY <1>6, <1>8 DEF LastIndexTs
  <2>3. DOMAIN TableTickIndex' = 1 .. k + 1
    BY <1>5
  <2>4. HoursWhole'
    BY <2>1, <2>3 DEF HoursWhole, baseTickIndexTs
  <2>5. QED
    BY <1>1, <1>3, <2>2, <2>4, SameTicks DEF HoursInTicks
<1>12. Fetching' /\ Storing'
  BY <1>1 DEF Fetching, Storing
<1>13. CaughtUp'
  BY <1>1, SameTicks DEF CaughtUp
<1>14. QED
  BY <1>9, <1>10, <1>11, <1>12, <1>13 DEF MarketInv

\* A price is that of the minute's row, whatever it holds.
LEMMA PriceStep ==
  ASSUME MarketInv, NEW m \in Minutes, GetPriceAtBlockN(m)
  PROVE  MarketInv'
<1>1. /\ TypeInv /\ CaughtUp /\ pc = "merge"
      /\ BlockPriceDict' = [BlockPriceDict EXCEPT ![m] = TableTick[m]]
      /\ UNCHANGED <<clock, TableTick, TableTickIndex, pc, prevTs, tmpN, ret, checked>>
  BY DEF MarketInv, GetPriceAtBlockN, mmaps, locals
<1>2. BlockPriceDict' \in [Minutes -> Rows \cup {"unknown"}]
  BY <1>1 DEF TypeInv
<1>3. Fetching' /\ Storing' /\ CaughtUp'
  BY <1>1, SameTicks DEF Fetching, Storing, CaughtUp
<1>4. QED
  BY <1>1, <1>2, <1>3, LocalStep DEF TypeInv

LEMMA OtherSteps ==
  ASSUME MarketInv, Call \/ FetchFails \/ IndexDone \/ SyncEnds \/ Crash
  PROVE  MarketInv'
<1>1. TypeInv /\ CaughtUp
  BY DEF MarketInv
<1>2. CASE Call
  <2>1. /\ pc' = "begin"
        /\ UNCHANGED <<clock, TableTick, TableTickIndex, BlockPriceDict, prevTs, tmpN, ret, checked>>
    BY <1>2 DEF Call, mmaps, locals
  <2>2. Fetching' /\ Storing' /\ CaughtUp'
    BY <2>1 DEF Fetching, Storing, CaughtUp
  <2>3. QED
    BY <1>1, <2>1, <2>2, LocalStep DEF TypeInv
<1>3. CASE FetchFails \/ SyncEnds \/ Crash
  <2>1. /\ ReturnTo("idle") /\ UNCHANGED <<clock, TableTick, TableTickIndex, checked>>
        /\ BlockPriceDict' \in [Minutes -> Rows \cup {"unknown"}]
    BY <1>1, <1>3 DEF FetchFails, SyncEnds, Crash, mmaps, TypeInv
  <2>2. QED
    BY <1>1, <2>1, Returned DEF TypeInv
<1>4. CASE IndexDone
  <2>1. /\ pc = "index" /\ ReturnTo("merge")
        /\ UNCHANGED <<clock, TableTick, TableTickIndex, BlockPriceDict, checked>>
    BY <1>4 DEF IndexDone, mmaps
  <2>2. checked' - Lag <= GetBTCLastTs
    BY <1>1, <2>1 DEF CaughtUp
  <2>3. QED
    BY <1>1, <2>1, <2>2, Returned DEF TypeInv
<1>5. QED
  BY <1>2, <1>3, <1>4

-----------------------------------------------------------------------------
(* The theorems. *)

LEMMA MarketNext == ASSUME MarketInv, [Next]_vars PROVE MarketInv'
<1>1. CASE Tick
  BY <1>1, TickStep
<1>2. CASE syncBitcoin
  BY <1>2, BeginStep, FetchStep, StoreRowStep, CheckStep, IndexRowStep, OtherSteps
  DEF syncBitcoin
<1>3. CASE Call \/ SyncEnds \/ Crash
  BY <1>3, OtherSteps
<1>4. CASE \E m \in Minutes : GetPriceAtBlockN(m)
  BY <1>4, PriceStep
<1>5. CASE UNCHANGED vars
  <2>1. UNCHANGED <<clock, TableTick, TableTickIndex, BlockPriceDict, pc, prevTs, tmpN, ret, checked>>
    BY <1>5 DEF vars, mmaps, locals
  <2>2. Fetching' /\ Storing' /\ CaughtUp'
    BY <2>1, SameTicks DEF MarketInv, Fetching, Storing, CaughtUp
  <2>3. QED
    BY <2>1, <2>2, LocalStep DEF MarketInv, TypeInv
<1>6. QED
  BY <1>1, <1>2, <1>3, <1>4, <1>5 DEF Next

\* What syncBitcoin has stored and what it still holds are klines of minutes
\* that were over, wherever it stands and whenever it was killed.
THEOREM MarketInvariant == Spec => []MarketInv
<1>1. Init => MarketInv
  BY MarketInit
<1>2. MarketInv /\ [Next]_vars => MarketInv'
  BY MarketNext
<1>3. QED
  BY <1>1, <1>2, PTL DEF Spec

\* The rows of minutes are of minutes that were over, from the first on and
\* without a hole (syncBitcoin).
THEOREM MinutesAreOver == Spec => []TicksClosed
<1>1. MarketInv => TicksClosed
  BY DEF MarketInv, TicksOver
<1>2. QED
  BY <1>1, MarketInvariant, PTL

\* The rows of hours follow each other, each made from all of its minutes
\* (syncBitcoinIndex, calcFinanceIndex).
THEOREM HoursFollow == Spec => []HoursWhole
<1>1. MarketInv => HoursWhole
  BY DEF MarketInv, HoursInTicks
<1>2. QED
  BY <1>1, MarketInvariant, PTL

\* A price is looked up when the sync has stored all but the last Lag minutes
\* before its last look at the clock (GetPriceAtBlockN in SyncResults).
THEOREM PricesOfOldBlocks == Spec => OldBlocksPriced
<1> DEFINE Priced == \A m \in Minutes :
             BlockPriceDict[m] = "unknown" /\ BlockPriceDict'[m] # "unknown" /\ m <= checked - Lag
               => BlockPriceDict'[m] = "closed"
<1>1. MarketInv /\ [Next]_vars => [Priced]_vars
  <2>1. SUFFICES ASSUME MarketInv, Next, NEW m \in Minutes,
                        BlockPriceDict[m] = "unknown", BlockPriceDict'[m] # "unknown",
                        m <= checked - Lag
                 PROVE  BlockPriceDict'[m] = "closed"
    BY Zenon
  <2>2. TypeInv /\ TicksOver /\ CaughtUp
    BY <2>1 DEF MarketInv
  <2>3. CASE \E k \in Minutes : GetPriceAtBlockN(k)
    <3>1. PICK k \in Minutes : GetPriceAtBlockN(k)
      BY <2>3
    <3>2. /\ pc = "merge"
          /\ BlockPriceDict' = [BlockPriceDict EXCEPT ![k] = TableTick[k]]
      BY <3>1 DEF GetPriceAtBlockN
    <3>3. m = k /\ BlockPriceDict'[m] = TableTick[m]
      BY <2>1, <2>2, <3>2 DEF TypeInv
    <3>4. m <= GetBTCLastTs
      <4>1. checked - Lag <= GetBTCLastTs
        BY <2>2, <3>2 DEF CaughtUp
      <4>2. m \in Int /\ checked \in Int /\ Lag \in Int /\ GetBTCLastTs \in Int
        BY <2>2, LastType, MarketAssumption DEF Minutes, TypeInv
      <4>3. QED
        BY <2>1, <4>1, <4>2
    <3>5. QED
      BY <2>2, <3>3, <3>4 DEF TicksOver, TicksClosed
  <2>4. CASE Crash
    BY <2>1, <2>4 DEF Crash
  <2>5. CASE Tick \/ Call \/ syncBitcoin \/ SyncEnds
    <3>1. UNCHANGED BlockPriceDict
      BY <2>5 DEF Tick, Call, syncBitcoin, SyncEnds, Begin, Fetch, FetchFails, StoreRow,
         Check, IndexRow, IndexDone
    <3>2. QED
      BY <2>1, <3>1
  <2>6. QED
    BY <2>1, <2>3, <2>4, <2>5 DEF Next
<1>2. QED
  BY <1>1, MarketInvariant, PTL DEF Spec, OldBlocksPriced
=============================================================================
