--------------------------- MODULE TxTableProofs ----------------------------
(***************************************************************************)
(* The transaction table for every size, first row and step: the search    *)
(* for a block stays inside the table, and what it finds is the block.     *)
(***************************************************************************)
EXTENDS TxTable, DataLemmas

-----------------------------------------------------------------------------
(* The inductive invariant. *)

\* Rows are in block order from block 1 on, no block is left out, and there
\* are always more free rows than one move skips.
GoodTable ==
  /\ table # <<>> => table[1] = 1 /\ lastNewID + Step < Size
  /\ \A i, j \in 1 .. lastNewID : i <= j => table[i] <= table[j]
  /\ \A i \in 1 .. lastNewID : i + 1 <= lastNewID => table[i + 1] <= table[i] + 1

\* Every row before i is of a block before b.
AllBefore(i, b) == \A j \in 1 .. lastNewID : j < i => table[j] < b

FirstRowOf(i, b) == i \in 1 .. lastNewID /\ table[i] = b /\ AllBefore(i, b)

GoodCache == \A b \in TxBlocks :
  cacheTableTxBlockId[b] # 0 => FirstRowOf(cacheTableTxBlockId[b], b)

BelowRow(i) == i \in 1 .. lastNewID /\ table[i] < n
AboveRow(i) == i \in 1 .. lastNewID /\ table[i] > n

Searching ==
  pc # "idle" => n \in 1 .. MaxBlock /\ n <= Newest /\ table # <<>>

\* "enlarge": the first row, or one step behind a row before the block.
Enlarging ==
  pc = "enlarge" =>
    /\ tmpStep = Step
    /\ \/ tmpCounter = First /\ lastSign = (currentPos < n)
       \/ lastSign /\ BelowRow(tmpCounter - Step)

\* "locate": the search is on a row of the table.
OnRow == tmpCounter \in 1 .. lastNewID /\ tmpStep \in Nat \ {0}

\* The last move was to the right, from a row before the block. If that was
\* not enough, some row past the block is so near that it is met by the next
\* move, or so far from the end that the next move may pass it.
MovedRight ==
  /\ BelowRow(tmpCounter - tmpStep)
  /\ table[tmpCounter] < n =>
       \E q \in tmpCounter .. lastNewID :
         /\ AboveRow(q)
         /\ q - tmpCounter \in {tmpStep, tmpStep + 1} \/ q + tmpStep <= lastNewID

\* The last move was to the left, from a row past the block, or there was none
\* yet. No row of the block is more than another such move away; and half such
\* a move to the right stays in the table.
MovedLeft ==
  /\ AllBefore(tmpCounter - tmpStep, n)
  /\ \/ tmpCounter <= tmpStep /\ table[tmpCounter] >= n
     \/ /\ AboveRow(tmpCounter + tmpStep)
        /\ tmpCounter + 2 * tmpStep <= lastNewID \/ tmpCounter >= tmpStep

Locating ==
  pc = "locate" => OnRow /\ IF lastSign THEN MovedRight ELSE MovedLeft

SearchInv == TypeOK /\ GoodTable /\ GoodCache /\ Searching /\ Enlarging /\ Locating

-----------------------------------------------------------------------------
(* The table, and what Findnext finds in it. *)

LEMMA TableType ==
  ASSUME TypeOK
  PROVE  /\ lastNewID \in Nat /\ lastNewID < Size
         /\ \A i \in 1 .. lastNewID : table[i] \in TxBlocks
         /\ table # <<>> <=> lastNewID >= 1
         /\ \A i \in Nat \ {0} : GetFieldBlockNum(i) \in Nat
<1>1. table \in Seq(TxBlocks) /\ Len(table) < Size
  BY DEF TypeOK, lastNewID
<1>2. /\ Len(table) \in Nat
      /\ \A i \in 1 .. Len(table) : table[i] \in TxBlocks
      /\ table # <<>> <=> Len(table) >= 1
  BY <1>1
<1>3. TxBlocks \subseteq Nat
  BY DEF TxBlocks
<1>4. \A i \in Nat \ {0} : GetFieldBlockNum(i) \in Nat
  <2>1. SUFFICES ASSUME NEW i \in Nat \ {0}
                 PROVE  GetFieldBlockNum(i) \in Nat
    OBVIOUS
  <2>2. CASE i <= Len(table)
    <3>1. table[i] \in TxBlocks
      BY <1>2, <2>2
    <3>2. QED
      BY <1>3, <2>2, <3>1 DEF GetFieldBlockNum, lastNewID
  <2>3. CASE ~(i <= Len(table))
    BY <2>3 DEF GetFieldBlockNum, lastNewID
  <2>4. QED
    BY <2>2, <2>3
<1>5. QED
  BY <1>1, <1>2, <1>4 DEF lastNewID

\* Between a row before a block and a row past it there is a row of it.
LEMMA NoNeighbours ==
  ASSUME TypeOK, GoodTable, NEW i \in 1 .. lastNewID, i + 1 <= lastNewID,
         NEW b \in Int, table[i] < b
  PROVE  table[i + 1] <= b
<1>1. table[i + 1] <= table[i] + 1
  BY DEF GoodTable
<1>2. table[i] \in Int /\ table[i + 1] \in Int
  <2>1. i + 1 \in 1 .. lastNewID
    OBVIOUS
  <2>2. table[i] \in TxBlocks /\ table[i + 1] \in TxBlocks
    BY <2>1, TableType
  <2>3. QED
    BY <2>2 DEF TxBlocks
<1>3. QED
  BY <1>1, <1>2

\* The linear search finds the first row of the block, wherever it begins
\* before it.
LEMMA FindnextFirst ==
  ASSUME TypeOK, GoodTable, NEW b \in 1 .. MaxBlock, b <= Newest, table # <<>>,
         NEW i \in 1 .. lastNewID, AllBefore(i, b)
  PROVE  FirstRowOf(Findnext(LAMBDA x : x >= b, i), b)
<1> DEFINE found == {j \in i .. Size : GetFieldBlockNum(j) >= b}
           f == Findnext(LAMBDA x : x >= b, i)
<1>1. /\ lastNewID \in Nat /\ lastNewID < Size /\ Size \in Nat
      /\ \A j \in 1 .. lastNewID : table[j] \in Nat
  <2>1. TxBlocks \subseteq Nat
    BY DEF TxBlocks
  <2>2. QED
    BY <2>1, TableType, TxTableAssumption
<1>2. lastNewID \in found
  BY <1>1 DEF GetFieldBlockNum, Newest
<1>3. f = Min(found) /\ found \in SUBSET Nat
  BY DEF Findnext
<1>4. f \in found /\ \A j \in found : f <= j
  BY <1>2, <1>3, MinOfNats
<1>5. f \in 1 .. lastNewID /\ table[f] >= b
  BY <1>1, <1>2, <1>4 DEF GetFieldBlockNum
<1>6. AllBefore(f, b)
  <2>1. SUFFICES ASSUME NEW j \in 1 .. lastNewID, j < f
                 PROVE  table[j] < b
    BY DEF AllBefore
  <2>2. CASE j < i
    BY <2>2 DEF AllBefore
  <2>3. CASE ~(j < i)
    <3>1. j \in i .. Size /\ j \notin found
      <4>1. j \in i .. Size
        BY <1>1, <2>3
      <4>2. f \in Nat /\ ~(f <= j)
        BY <1>5, <2>1
      <4>3. QED
        BY <1>4, <4>1, <4>2
    <3>2. ~(table[j] >= b)
      BY <3>1 DEF GetFieldBlockNum
    <3>3. QED
      BY <1>1, <3>2
  <2>4. QED
    BY <2>2, <2>3
<1>7. table[f] = b
  <2>1. CASE f = 1
    BY <1>5, <2>1 DEF GoodTable
  <2>2. CASE f # 1
    <3>1. f - 1 \in 1 .. lastNewID /\ (f - 1) + 1 = f /\ f - 1 < f
      BY <1>1, <1>5, <2>2
    <3>2. table[f - 1] < b
      BY <1>6, <3>1 DEF AllBefore
    <3>3. table[f] <= b
      BY <1>5, <3>1, <3>2, NoNeighbours
    <3>4. QED
      BY <1>1, <1>5, <3>3
  <2>3. QED
    BY <2>1, <2>2
<1>8. QED
  BY <1>5, <1>6, <1>7 DEF FirstRowOf

\* A row before the block has only rows before the block before it.
LEMMA BelowIsBefore ==
  ASSUME TypeOK, GoodTable, NEW i \in 1 .. lastNewID, NEW b \in Int, table[i] < b
  PROVE  AllBefore(i, b)
<1> SUFFICES ASSUME NEW j \in 1 .. lastNewID, j < i
             PROVE  table[j] < b
  BY DEF AllBefore
<1>1. table[j] <= table[i]
  BY TableType DEF GoodTable
<1>2. table[j] \in Int /\ table[i] \in Int
  <2>1. table[j] \in TxBlocks /\ table[i] \in TxBlocks
    BY TableType
  <2>2. QED
    BY <2>1 DEF TxBlocks
<1>3. QED
  BY <1>1, <1>2

LEMMA Half ==
  ASSUME NEW k \in Nat
  PROVE  /\ k \div 2 \in Nat /\ 2 * (k \div 2) <= k /\ k <= 2 * (k \div 2) + 1
         /\ Larger(k \div 2, 1) \in Nat \ {0}
         /\ k >= 2 => Larger(k \div 2, 1) = k \div 2
         /\ k < 2 => Larger(k \div 2, 1) = 1
BY DEF Larger

-----------------------------------------------------------------------------
(* The moves of "locate position". *)

\* What a move works with: the search on a row, and the block at one behind it.
LEMMA OnTheTable ==
  ASSUME SearchInv, pc = "locate"
  PROVE  /\ tmpCounter \in 1 .. lastNewID /\ tmpStep \in Nat \ {0}
         /\ currentPos = table[tmpCounter] /\ currentPos \in Nat
         /\ n \in Nat \ {0} /\ lastNewID \in Nat
         /\ table[1] = 1 /\ table[lastNewID] >= n
         /\ \A i \in 1 .. lastNewID : table[i] \in Nat
<1>1. /\ TypeOK /\ OnRow /\ GoodTable
      /\ n \in 1 .. MaxBlock /\ n <= Newest /\ table # <<>>
  BY DEF SearchInv, Searching, Locating
<1>2. /\ lastNewID \in Nat /\ \A i \in 1 .. lastNewID : table[i] \in Nat
  <2>1. TxBlocks \subseteq Nat
    BY DEF TxBlocks
  <2>2. QED
    BY <1>1, <2>1, TableType
<1>3. QED
  BY <1>1, <1>2 DEF OnRow, currentPos, GetFieldBlockNum, Newest, GoodTable

LEMMA MoveLeft ==
  ASSUME SearchInv, pc = "locate", currentPos > n
  PROVE  /\ NextStep \in Nat \ {0}
         /\ tmpCounter - NextStep \in 1 .. lastNewID
         /\ AllBefore((tmpCounter - NextStep) - NextStep, n)
         /\ AboveRow(tmpCounter)
         /\ tmpCounter + NextStep <= lastNewID
              \/ tmpCounter - NextStep >= NextStep
<1> DEFINE c == tmpCounter
           s == tmpStep
           t == NextStep
           reset == c <= Halved \/ c >= lastNewID
<1>1. /\ c \in 1 .. lastNewID /\ s \in Nat \ {0} /\ lastNewID \in Nat
      /\ table[c] > n /\ n \in Nat \ {0}
      /\ \A i \in 1 .. lastNewID : table[i] \in Nat
      /\ TypeOK /\ GoodTable
      /\ IF lastSign THEN MovedRight ELSE MovedLeft
  BY OnTheTable DEF SearchInv, Locating
<1>2. c >= 2
  BY <1>1, OnTheTable
<1>3. AboveRow(c)
  BY <1>1 DEF AboveRow
<1>4. ~(currentPos < n) /\ lastSign \in BOOLEAN
  BY <1>1, OnTheTable DEF TypeOK
<1>5. CASE reset
  <2>1. t = c \div 2
    BY <1>1, <1>2, <1>5, Half DEF NextStep
  <2>2. /\ t \in Nat /\ t >= 1 /\ 2 * t <= c /\ c <= 2 * t + 1
    BY <1>1, <1>2, <2>1, Half
  <2>3. AllBefore((c - t) - t, n)
    BY <1>1, <2>2 DEF AllBefore
  <2>4. QED
    BY <1>1, <1>3, <2>2, <2>3
<1>6. CASE ~reset /\ lastSign
  <2>1. t = Larger(s \div 2, 1) /\ c > t
    <3>1. lastSign # (currentPos < n)
      BY <1>4, <1>6, Zenon
    <3>2. Halved = Larger(s \div 2, 1) /\ Halved \in Nat
      BY <1>1, <3>1, Half DEF Halved
    <3>3. t = Halved
      BY <1>6 DEF NextStep
    <3>4. QED
      BY <1>1, <1>6, <3>2, <3>3
  <2>2. BelowRow(c - s)
    BY <1>1, <1>6 DEF MovedRight
  <2>3. s >= 2
    <3>1. CASE s = 1
      <4>1. c - 1 \in 1 .. lastNewID /\ (c - 1) + 1 = c /\ table[c - 1] < n
        BY <1>1, <2>2, <3>1 DEF BelowRow
      <4>2. table[c] <= n
        BY <1>1, <4>1, NoNeighbours
      <4>3. QED
        BY <1>1, <4>2
    <3>2. QED
      BY <1>1, <3>1
  <2>4. t \in Nat /\ t >= 1 /\ 2 * t <= s /\ s <= 2 * t + 1
    BY <1>1, <2>1, <2>3, Half
  <2>5. c - s \in 1 .. lastNewID /\ table[c - s] < n
    BY <2>2 DEF BelowRow
  <2>6. AllBefore((c - t) - t, n)
    <3>1. SUFFICES ASSUME NEW j \in 1 .. lastNewID, j < (c - t) - t
                   PROVE  table[j] < n
      BY DEF AllBefore
    <3>2. j <= c - s
      BY <1>1, <2>4, <3>1
    <3>3. table[j] <= table[c - s]
      BY <1>1, <2>5, <3>2 DEF GoodTable
    <3>4. QED
      BY <1>1, <2>5, <3>3
  <2>7. QED
    BY <1>1, <1>3, <2>1, <2>4, <2>5, <2>6
<1>7. CASE ~reset /\ ~lastSign
  <2>1. t = s /\ c > t
    BY <1>1, <1>4, <1>7 DEF NextStep, Halved
  <2>2. AllBefore(c - s, n) /\ AboveRow(c + s)
    BY <1>1, <1>7, <2>1 DEF MovedLeft
  <2>3. AllBefore((c - t) - t, n)
    BY <1>1, <2>1, <2>2 DEF AllBefore
  <2>4. c + t <= lastNewID
    BY <1>1, <2>1, <2>2 DEF AboveRow
  <2>5. QED
    BY <1>1, <1>3, <2>1, <2>3, <2>4
<1>8. QED
  BY <1>4, <1>5, <1>6, <1>7

LEMMA MoveRight ==
  ASSUME SearchInv, pc = "locate", currentPos < n
  PROVE  /\ NextStep \in Nat \ {0}
         /\ tmpCounter + NextStep \in 1 .. lastNewID
         /\ BelowRow(tmpCounter)
         /\ table[tmpCounter + NextStep] < n =>
              \E q \in tmpCounter + NextStep .. lastNewID :
                /\ AboveRow(q)
                /\ \/ q - (tmpCounter + NextStep) \in {NextStep, NextStep + 1}
                   \/ q + NextStep <= lastNewID
<1> DEFINE c == tmpCounter
           s == tmpStep
           t == NextStep
<1>1. /\ c \in 1 .. lastNewID /\ s \in Nat \ {0} /\ lastNewID \in Nat
      /\ table[c] < n /\ n \in Nat \ {0}
      /\ \A i \in 1 .. lastNewID : table[i] \in Nat
      /\ TypeOK /\ GoodTable
      /\ IF lastSign THEN MovedRight ELSE MovedLeft
  BY OnTheTable DEF SearchInv, Locating
<1>2. c < lastNewID
  BY <1>1, OnTheTable
<1>3. BelowRow(c)
  BY <1>1 DEF BelowRow
<1>4. currentPos < n /\ lastSign \in BOOLEAN
  BY <1>1 DEF TypeOK
<1>5. ASSUME NEW i \in 1 .. lastNewID, NEW q \in 1 .. lastNewID, table[i] < n, AboveRow(q)
      PROVE  i + 1 < q
  <2>1. table[q] > n
    BY <1>5 DEF AboveRow
  <2>2. i < q
    <3>1. q <= i => table[q] <= table[i]
      BY <1>1 DEF GoodTable
    <3>2. QED
      BY <1>1, <1>5, <2>1, <3>1
  <2>3. CASE q = i + 1
    <3>1. table[i + 1] <= n
      BY <1>1, <1>5, <2>3, NoNeighbours
    <3>2. QED
      BY <1>1, <2>1, <2>3, <3>1
  <2>4. QED
    BY <2>2, <2>3
<1>6. CASE lastSign
  <2>1. c - s >= 1
    BY <1>1, <1>6 DEF MovedRight, BelowRow
  <2>2. t = s
    <3>1. ~(lastSign # (currentPos < n))
      <4>1. lastSign = TRUE /\ (currentPos < n) = TRUE
        BY <1>4, <1>6
      <4>2. QED
        BY <4>1, Zenon
    <3>2. Halved = s
      BY <3>1 DEF Halved
    <3>3. QED
      BY <1>1, <1>2, <2>1, <3>2 DEF NextStep
  <2>3. PICK q \in c .. lastNewID :
          AboveRow(q) /\ (q - c \in {s, s + 1} \/ q + s <= lastNewID)
    BY <1>1, <1>6 DEF MovedRight
  <2>4. q \in 1 .. lastNewID /\ c + 1 < q
    BY <1>1, <1>5, <2>3
  <2>5. c + t \in 1 .. lastNewID
    BY <1>1, <2>2, <2>3, <2>4
  <2>6. ASSUME table[c + t] < n
        PROVE  q \in c + t .. lastNewID /\ q + t <= lastNewID
    <3>1. (c + t) + 1 < q
      BY <1>5, <2>3, <2>4, <2>5, <2>6
    <3>2. QED
      BY <1>1, <2>2, <2>3, <2>4, <3>1
  <2>7. QED
    BY <1>1, <1>3, <2>2, <2>3, <2>5, <2>6
<1>7. CASE ~lastSign
  <2> DEFINE q == c + s
  <2>1. /\ AboveRow(q) /\ q \in 1 .. lastNewID
        /\ c + 2 * s <= lastNewID \/ c >= s
    BY <1>1, <1>7 DEF MovedLeft, AboveRow
  <2>2. s >= 2
    BY <1>1, <1>5, <2>1
  <2>3. /\ Halved = s \div 2 /\ Halved \in Nat
        /\ 2 * Halved <= s /\ s <= 2 * Halved + 1 /\ Halved >= 1
    BY <1>1, <1>4, <1>7, <2>2, Half DEF Halved
  <2>4. CASE c <= Halved
    <3>1. t = Larger(c \div 2, 1) /\ t \in Nat \ {0} /\ t <= s
      BY <1>1, <2>2, <2>3, <2>4, Half DEF NextStep
    <3>2. c + 2 * s <= lastNewID
      BY <1>1, <2>1, <2>2, <2>3, <2>4
    <3>3. c + t \in 1 .. lastNewID
      BY <1>1, <3>1, <3>2
    <3>4. ASSUME table[c + t] < n
          PROVE  q \in c + t .. lastNewID /\ q + t <= lastNewID
      <4>1. (c + t) + 1 < q
        BY <1>5, <2>1, <3>3, <3>4
      <4>2. QED
        BY <1>1, <2>1, <3>1, <3>2, <4>1
    <3>5. QED
      BY <1>3, <2>1, <3>1, <3>3, <3>4
  <2>5. CASE ~(c <= Halved)
    <3>1. t = Halved /\ t \in Nat \ {0}
      BY <1>1, <1>2, <2>3, <2>5 DEF NextStep
    <3>2. c + t \in 1 .. lastNewID /\ q \in c + t .. lastNewID
      BY <1>1, <2>1, <2>3, <3>1
    <3>3. q - (c + t) \in {t, t + 1}
      BY <1>1, <2>3, <3>1
    <3>4. QED
      BY <1>3, <2>1, <3>1, <3>2, <3>3
  <2>6. QED
    BY <2>4, <2>5
<1>8. QED
  BY <1>4, <1>6, <1>7
-----------------------------------------------------------------------------
(* Every step keeps the invariant. *)

\* What holds of the table and of the rows found holds of them unchanged.
LEMMA SameTable ==
  ASSUME UNCHANGED table
  PROVE  /\ lastNewID' = lastNewID /\ Newest' = Newest
         /\ GoodTable' <=> GoodTable
         /\ \A i : GetFieldBlockNum(i)' = GetFieldBlockNum(i)
         /\ \A i, b : AllBefore(i, b)' <=> AllBefore(i, b)
         /\ \A i, b : FirstRowOf(i, b)' <=> FirstRowOf(i, b)
BY DEF lastNewID, Newest, GoodTable, GetFieldBlockNum, AllBefore, FirstRowOf

LEMMA InitInv == ASSUME Init PROVE SearchInv
<1>1. lastNewID = 0
  BY DEF Init, lastNewID
<1>2. TypeOK
  <2>1. table \in Seq(TxBlocks) /\ lastNewID < Size
    BY <1>1, TxTableAssumption DEF Init
  <2>2. cacheTableTxBlockId \in [TxBlocks -> 0 .. Size]
    BY TxTableAssumption DEF Init
  <2>3. pc = "idle" /\ n \in 0 .. MaxBlock /\ tmpCounter \in {0} /\ tmpStep \in Nat
    BY TxTableAssumption DEF Init
  <2>4. lastSign \in BOOLEAN
    BY Zenon DEF Init
  <2>5. QED
    BY <2>1, <2>2, <2>3, <2>4, Zenon DEF TypeOK
<1>3. GoodTable
  BY <1>1 DEF Init, GoodTable
<1>4. GoodCache
  BY DEF Init, GoodCache
<1>5. Searching /\ Enlarging /\ Locating
  BY DEF Init, Searching, Enlarging, Locating
<1>6. QED
  BY <1>2, <1>3, <1>4, <1>5 DEF SearchInv

\* The rows of a new block come after all others.
LEMMA AppendStep ==
  ASSUME SearchInv, NEW k \in RowCounts, BatchInsert(k)
  PROVE  SearchInv'
<1> DEFINE L == lastNewID
           rows == [i \in 1 .. k |-> Newest + 1]
<1>1. /\ TypeOK /\ GoodTable /\ GoodCache /\ k \in Nat \ {0}
      /\ Size \in Nat /\ Step \in Nat /\ MaxBlock \in Nat
  BY TxTableAssumption DEF SearchInv
<1>2. /\ pc = "idle" /\ Newest < MaxBlock /\ L + k + Step < Size
      /\ table' = table \o rows
      /\ UNCHANGED <<cacheTableTxBlockId, pc, n, tmpCounter, tmpStep, lastSign>>
  BY DEF BatchInsert, search
<1>3. /\ L \in Nat /\ \A i \in 1 .. L : table[i] \in TxBlocks
      /\ table # <<>> <=> L >= 1
  BY <1>1, TableType
<1>4. Newest \in 0 .. MaxBlock /\ Newest + 1 \in TxBlocks
  BY <1>1, <1>2, <1>3 DEF Newest, TxBlocks
<1>5. table \in Seq(TxBlocks) /\ rows \in Seq(TxBlocks) /\ Len(rows) = k /\ Len(table) = L
  BY <1>1, <1>4 DEF TypeOK, lastNewID
<1>6. /\ table' \in Seq(TxBlocks) /\ lastNewID' = L + k
      /\ \A i \in 1 .. L : table'[i] = table[i]
      /\ \A i \in L + 1 .. L + k : table'[i] = Newest + 1
  <2> HIDE DEF rows
  <2>1. table \o rows \in Seq(TxBlocks) /\ Len(table \o rows) = L + k
    BY <1>5
  <2>2. \A i \in 1 .. L : (table \o rows)[i] = table[i]
    BY <1>1, <1>3, <1>5
  <2>3. ASSUME NEW i \in L + 1 .. L + k
        PROVE  (table \o rows)[i] = Newest + 1
    <3>1. (table \o rows)[i] = rows[i - L]
      BY <1>1, <1>3, <1>5, <2>3
    <3>2. i - L \in 1 .. k
      BY <1>1, <1>3, <2>3
    <3>3. QED
      BY <3>1, <3>2 DEF rows
  <2>4. QED
    BY <1>2, <2>1, <2>2, <2>3 DEF lastNewID
<1>7. \A i \in 1 .. L : table[i] <= Newest
  BY <1>1, <1>3 DEF GoodTable, Newest
<1>8. TypeOK'
  BY <1>1, <1>2, <1>3, <1>6 DEF TypeOK
<1>9. GoodTable'
  <2>1. table'[1] = 1 /\ L + k + Step < Size
    <3>1. CASE L = 0
      BY <1>1, <1>2, <1>3, <1>6, <3>1 DEF Newest
    <3>2. CASE L # 0
      BY <1>1, <1>2, <1>3, <1>6, <3>2 DEF GoodTable
    <3>3. QED
      BY <3>1, <3>2
  <2>2. ASSUME NEW i \in 1 .. L + k, NEW j \in 1 .. L + k, i <= j
        PROVE  table'[i] <= table'[j]
    <3>1. CASE j <= L
      BY <1>1, <1>3, <1>6, <2>2, <3>1 DEF GoodTable
    <3>2. CASE j > L /\ i <= L
      <4>1. table'[i] = table[i] /\ table[i] <= Newest /\ table'[j] = Newest + 1
        BY <1>1, <1>3, <1>6, <1>7, <3>2
      <4>2. table[i] \in TxBlocks
        BY <1>3, <3>2
      <4>3. QED
        BY <1>4, <4>1, <4>2 DEF TxBlocks
    <3>3. CASE i > L
      BY <1>1, <1>3, <1>4, <1>6, <2>2, <3>3
    <3>4. QED
      BY <1>1, <1>3, <3>1, <3>2, <3>3
  <2>3. ASSUME NEW i \in 1 .. L + k, i + 1 <= L + k
        PROVE  table'[i + 1] <= table'[i] + 1
    <3>1. CASE i + 1 <= L
      BY <1>1, <1>3, <1>6, <2>3, <3>1 DEF GoodTable
    <3>2. CASE i = L
      BY <1>1, <1>3, <1>4, <1>6, <2>3, <3>2 DEF Newest
    <3>3. CASE i > L
      BY <1>1, <1>3, <1>4, <1>6, <2>3, <3>3
    <3>4. QED
      BY <1>1, <1>3, <3>1, <3>2, <3>3
  <2>4. QED
    BY <1>6, <2>1, <2>2, <2>3 DEF GoodTable
<1>10. GoodCache'
  <2>1. SUFFICES ASSUME NEW b \in TxBlocks, cacheTableTxBlockId[b] # 0
                 PROVE  FirstRowOf(cacheTableTxBlockId[b], b)'
    BY <1>2 DEF GoodCache
  <2> DEFINE a == cacheTableTxBlockId[b]
  <2>2. a \in 1 .. L /\ table[a] = b /\ AllBefore(a, b)
    BY <1>1, <2>1 DEF GoodCache, FirstRowOf
  <2>3. a \in 1 .. L + k /\ table'[a] = b
    BY <1>1, <1>3, <1>6, <2>2
  <2>4. \A j \in 1 .. L + k : j < a => table'[j] < b
    BY <1>1, <1>3, <1>6, <2>2 DEF AllBefore
  <2>5. QED
    BY <1>2, <1>6, <2>3, <2>4 DEF FirstRowOf, AllBefore
<1>11. Searching' /\ Enlarging' /\ Locating'
  BY <1>2 DEF Searching, Enlarging, Locating
<1>12. QED
  BY <1>8, <1>9, <1>10, <1>11 DEF SearchInv

LEMMA BeginStep ==
  ASSUME SearchInv, NEW b \in TxBlocks, Begin(b)
  PROVE  SearchInv'
<1>1. /\ TypeOK /\ GoodTable /\ GoodCache
      /\ First \in 1 .. Size /\ Size \in Nat /\ Step \in Nat /\ MaxBlock \in Nat
      /\ b \in 1 .. MaxBlock /\ b <= Newest
      /\ pc' = "enlarge" /\ n' = b /\ tmpCounter' = First /\ tmpStep' = Step
      /\ lastSign' = (GetFieldBlockNum(First) < b)
      /\ UNCHANGED <<table, cacheTableTxBlockId>>
  BY TxTableAssumption DEF SearchInv, Begin, TxBlocks
<1>2. TypeOK'
  BY <1>1, SameTable DEF TypeOK
<1>3. GoodTable' /\ GoodCache'
  BY <1>1, SameTable DEF GoodCache
<1>4. Searching'
  <2>1. table # <<>>
    BY <1>1 DEF Newest
  <2>2. QED
    BY <1>1, <2>1, SameTable DEF Searching
<1>5. Enlarging'
  <2>1. currentPos' = GetFieldBlockNum(First)
    BY <1>1 DEF currentPos, GetFieldBlockNum, lastNewID
  <2>2. QED
    BY <1>1, <2>1 DEF Enlarging
<1>6. Locating'
  BY <1>1 DEF Locating
<1>7. QED
  BY <1>2, <1>3, <1>4, <1>5, <1>6 DEF SearchInv

LEMMA EnlargeStep ==
  ASSUME SearchInv, Enlarge
  PROVE  SearchInv'
<1>1. /\ TypeOK /\ GoodTable /\ GoodCache /\ Searching /\ Enlarging
      /\ Size \in Nat /\ Step \in Nat
      /\ pc = "enlarge" /\ currentPos < n /\ currentPos # 0
      /\ tmpCounter' = tmpCounter + tmpStep
      /\ UNCHANGED <<table, cacheTableTxBlockId, pc, n, tmpStep, lastSign>>
  BY TxTableAssumption DEF SearchInv, Enlarge
<1>2. tmpStep = Step /\ tmpCounter \in 1 .. Size /\ lastNewID \in Nat
  BY <1>1, TableType DEF TypeOK, Enlarging
<1>3. tmpCounter \in 1 .. lastNewID /\ table[tmpCounter] < n
  BY <1>1, <1>2 DEF currentPos, GetFieldBlockNum
<1>4. lastNewID + Step < Size
  <2>1. table # <<>>
    BY <1>1 DEF Searching
  <2>2. QED
    BY <1>1, <2>1 DEF GoodTable
<1>5. TypeOK'
  BY <1>1, <1>2, <1>3, <1>4, SameTable DEF TypeOK
<1>6. GoodTable' /\ GoodCache' /\ Searching'
  BY <1>1, SameTable DEF GoodCache, Searching
<1>7. lastSign
  BY <1>1 DEF Enlarging
<1>8. BelowRow(tmpCounter - tmpStep)'
  BY <1>1, <1>2, <1>3, SameTable DEF BelowRow
<1>9. Enlarging' /\ Locating'
  BY <1>1, <1>2, <1>7, <1>8 DEF Enlarging, Locating
<1>10. QED
  BY <1>5, <1>6, <1>9 DEF SearchInv

LEMMA StartLocatingStep ==
  ASSUME SearchInv, StartLocating
  PROVE  SearchInv'
<1>1. /\ TypeOK /\ GoodTable /\ GoodCache /\ Searching /\ Enlarging
      /\ First \in 1 .. Size /\ First <= Step /\ Size \in Nat /\ Step \in Nat
      /\ MaxBlock \in Nat
      /\ pc = "enlarge" /\ currentPos >= n /\ pc' = "locate"
      /\ UNCHANGED <<table, cacheTableTxBlockId, n, tmpCounter, tmpStep, lastSign>>
  BY TxTableAssumption DEF SearchInv, StartLocating
<1>2. /\ tmpStep = Step /\ tmpCounter \in 1 .. Size /\ n \in 1 .. MaxBlock
      /\ lastNewID \in Nat /\ lastSign \in BOOLEAN
  BY <1>1, TableType DEF TypeOK, Enlarging, Searching
<1>3. tmpCounter \in 1 .. lastNewID /\ table[tmpCounter] >= n
  BY <1>1, <1>2 DEF currentPos, GetFieldBlockNum
<1>4. table[tmpCounter] \in Nat
  <2>1. table[tmpCounter] \in TxBlocks
    BY <1>1, <1>3, TableType
  <2>2. QED
    BY <2>1 DEF TxBlocks
<1>5. TypeOK'
  BY <1>1, SameTable DEF TypeOK
<1>6. GoodTable' /\ GoodCache' /\ Searching'
  BY <1>1, SameTable DEF GoodCache, Searching
<1>7. OnRow'
  BY <1>1, <1>2, <1>3, SameTable DEF OnRow
<1>8. IF lastSign THEN MovedRight' ELSE MovedLeft'
  <2>1. CASE lastSign
    <3>1. ~(currentPos < n)
      BY <1>1, <1>2, <1>3, <1>4 DEF currentPos, GetFieldBlockNum
    <3>2. BelowRow(tmpCounter - Step)
      <4>1. ASSUME tmpCounter = First, lastSign = (currentPos < n)
            PROVE  FALSE
        BY <2>1, <3>1, <4>1
      <4>2. QED
        BY <1>1, <4>1 DEF Enlarging
    <3>3. MovedRight'
      BY <1>1, <1>2, <1>3, <1>4, <3>2, SameTable DEF MovedRight, BelowRow
    <3>4. QED
      BY <2>1, <3>3
  <2>2. CASE ~lastSign
    <3>1. tmpCounter = First
      BY <1>1, <2>2 DEF Enlarging
    <3>2. AllBefore(tmpCounter - tmpStep, n)
      BY <1>1, <1>2, <3>1 DEF AllBefore
    <3>3. MovedLeft'
      BY <1>1, <1>2, <1>3, <3>1, <3>2 DEF MovedLeft, AllBefore, lastNewID
    <3>4. QED
      BY <2>2, <3>3
  <2>3. QED
    BY <2>1, <2>2
<1>9. Enlarging' /\ Locating'
  <2>1. lastSign' = lastSign
    BY <1>1
  <2>2. IF lastSign' THEN MovedRight' ELSE MovedLeft'
    BY <1>8, <2>1
  <2>3. QED
    BY <1>1, <1>7, <2>2 DEF Enlarging, Locating
<1>10. QED
  BY <1>5, <1>6, <1>9 DEF SearchInv

LEMMA LocateStep ==
  ASSUME SearchInv, Locate
  PROVE  SearchInv'
<1> DEFINE c == tmpCounter
           t == NextStep
<1>1. /\ TypeOK /\ GoodTable /\ GoodCache /\ Searching
      /\ pc = "locate" /\ pc' = "locate" /\ currentPos # n
      /\ tmpStep' = t /\ tmpCounter' = IF currentPos > n THEN c - t ELSE c + t
      /\ lastSign' = (currentPos < n)
      /\ UNCHANGED <<table, cacheTableTxBlockId, n>>
  BY DEF SearchInv, Locate
<1>2. /\ currentPos \in Nat /\ n \in Nat /\ c \in Nat /\ lastNewID \in Nat
      /\ lastNewID < Size /\ Size \in Nat
  BY <1>1, OnTheTable, TableType, TxTableAssumption
<1>3. GoodTable' /\ GoodCache' /\ Searching'
  BY <1>1, SameTable DEF GoodCache, Searching
<1>4. Enlarging'
  BY <1>1 DEF Enlarging
<1>5. CASE currentPos > n
  <2>1. /\ t \in Nat \ {0} /\ c - t \in 1 .. lastNewID
        /\ AllBefore((c - t) - t, n) /\ AboveRow(c)
        /\ c + t <= lastNewID \/ c - t >= t
    BY <1>1, <1>5, MoveLeft
  <2>2. tmpCounter' = c - t /\ lastSign' = FALSE
    <3>1. (currentPos < n) = FALSE
      BY <1>2, <1>5
    <3>2. QED
      BY <1>1, <1>5, <3>1, Zenon
  <2>3. OnRow' /\ TypeOK'
    BY <1>1, <1>2, <2>1, <2>2, SameTable DEF OnRow, TypeOK
  <2>4. MovedLeft'
    <3>1. AllBefore(tmpCounter - tmpStep, n)'
      BY <1>1, <2>1, <2>2 DEF AllBefore, lastNewID
    <3>2. AboveRow(tmpCounter + tmpStep)'
      <4>1. (tmpCounter + tmpStep)' = c
        BY <1>1, <1>2, <2>1, <2>2
      <4>2. QED
        BY <1>1, <2>1, <4>1 DEF AboveRow, lastNewID
    <3>3. (tmpCounter + 2 * tmpStep <= lastNewID \/ tmpCounter >= tmpStep)'
      BY <1>1, <1>2, <2>1, <2>2, SameTable
    <3>4. QED
      BY <3>1, <3>2, <3>3 DEF MovedLeft
  <2>5. QED
    BY <1>3, <1>4, <2>2, <2>3, <2>4 DEF Locating, SearchInv
<1>6. CASE currentPos < n
  <2>1. /\ t \in Nat \ {0} /\ c + t \in 1 .. lastNewID
        /\ BelowRow(c)
        /\ table[c + t] < n =>
             \E q \in c + t .. lastNewID :
               AboveRow(q) /\ (q - (c + t) \in {t, t + 1} \/ q + t <= lastNewID)
    BY <1>1, <1>6, MoveRight
  <2>2. tmpCounter' = c + t /\ lastSign' = TRUE
    <3>1. (currentPos < n) = TRUE /\ ~(currentPos > n)
      BY <1>2, <1>6
    <3>2. QED
      BY <1>1, <3>1, Zenon
  <2>3. OnRow' /\ TypeOK'
    BY <1>1, <1>2, <2>1, <2>2, SameTable DEF OnRow, TypeOK
  <2>4. BelowRow(tmpCounter - tmpStep)'
    <3>1. (tmpCounter - tmpStep)' = c
      BY <1>1, <1>2, <2>1, <2>2
    <3>2. QED
      BY <1>1, <2>1, <3>1 DEF BelowRow, lastNewID
  <2>5. MovedRight'
    <3>1. \A q : AboveRow(q)' <=> AboveRow(q)
      BY <1>1 DEF AboveRow, lastNewID
    <3>2. QED
      BY <1>1, <2>1, <2>2, <2>4, <3>1, SameTable DEF MovedRight
  <2>6. QED
    BY <1>3, <1>4, <2>2, <2>3, <2>5 DEF Locating, SearchInv
<1>7. QED
  BY <1>1, <1>2, <1>5, <1>6

\* The linear search that ends a search begins at or before the block.
LEMMA ReturnStep ==
  ASSUME SearchInv, pc # "idle", LinearFrom \in 1 .. lastNewID,
         AllBefore(LinearFrom, n), Return(LinearFrom)
  PROVE  SearchInv'
<1> DEFINE f == Findnext(LAMBDA x : x >= n, LinearFrom)
<1>1. /\ TypeOK /\ GoodTable /\ GoodCache /\ Searching
      /\ Size \in Nat /\ MaxBlock \in Nat
      /\ cacheTableTxBlockId' = [cacheTableTxBlockId EXCEPT ![n] = f]
      /\ pc' = "idle" /\ n' = 0 /\ tmpCounter' = 0 /\ tmpStep' = 0 /\ lastSign' = FALSE
      /\ UNCHANGED table
  BY TxTableAssumption DEF SearchInv, Return
<1>2. n \in 1 .. MaxBlock /\ n <= Newest /\ table # <<>>
  BY <1>1 DEF Searching
<1>3. FirstRowOf(f, n)
  BY <1>1, <1>2, FindnextFirst
<1>4. f \in 0 .. Size
  BY <1>1, <1>3, TableType DEF FirstRowOf
<1> HIDE DEF f
<1>5. TypeOK'
  <2>1. cacheTableTxBlockId' \in [TxBlocks -> 0 .. Size]
    BY <1>1, <1>4 DEF TypeOK
  <2>2. table' \in Seq(TxBlocks) /\ lastNewID' < Size
    BY <1>1, SameTable DEF TypeOK
  <2>3. /\ pc' = "idle" /\ n' \in 0 .. MaxBlock /\ tmpCounter' \in {0}
        /\ tmpStep' \in Nat
    BY <1>1
  <2>4. lastSign' \in BOOLEAN
    BY <1>1, Zenon
  <2>5. QED
    BY <2>1, <2>2, <2>3, <2>4, Zenon DEF TypeOK
<1>6. GoodTable'
  BY <1>1, SameTable
<1>7. GoodCache'
  <2>1. SUFFICES ASSUME NEW b \in TxBlocks, cacheTableTxBlockId'[b] # 0
                 PROVE  FirstRowOf(cacheTableTxBlockId'[b], b)
    BY <1>1, SameTable DEF GoodCache
  <2>2. CASE b = n
    BY <1>1, <1>3, <2>2 DEF TypeOK
  <2>3. CASE b # n
    BY <1>1, <2>1, <2>3 DEF TypeOK, GoodCache
  <2>4. QED
    BY <2>2, <2>3
<1>8. Searching' /\ Enlarging' /\ Locating'
  BY <1>1 DEF Searching, Enlarging, Locating
<1>9. QED
  BY <1>5, <1>6, <1>7, <1>8 DEF SearchInv

LEMMA FindFirstStep ==
  ASSUME SearchInv, FindFirst
  PROVE  SearchInv'
<1>1. /\ TypeOK /\ GoodTable /\ pc = "locate" /\ Return(LinearFrom)
      /\ IF lastSign THEN MovedRight ELSE MovedLeft
  BY DEF SearchInv, FindFirst, Locating
<1>2. /\ tmpCounter \in 1 .. lastNewID /\ tmpStep \in Nat \ {0}
      /\ lastNewID \in Nat /\ n \in Nat
  BY <1>1, OnTheTable
<1>3. LinearFrom \in 1 .. lastNewID
  BY <1>2 DEF LinearFrom, Behind, Larger
<1>4. AllBefore(LinearFrom, n)
  <2>1. AllBefore(tmpCounter - tmpStep, n)
    BY <1>1, <1>2, BelowIsBefore DEF MovedRight, MovedLeft, BelowRow
  <2>2. QED
    BY <1>2, <2>1 DEF AllBefore, LinearFrom, Behind, Larger
<1>5. QED
  BY <1>1, <1>3, <1>4, ReturnStep

LEMMA FindInLastMoveStep ==
  ASSUME SearchInv, FindInLastMove
  PROVE  SearchInv'
<1>1. /\ TypeOK /\ GoodTable /\ Searching /\ Enlarging
      /\ pc = "enlarge" /\ Return(LinearFrom)
      /\ First \in Nat /\ Step \in Nat /\ First <= Step /\ MaxBlock \in Nat
  BY TxTableAssumption DEF SearchInv, FindInLastMove
<1>2. lastNewID \in Nat /\ lastNewID >= 1 /\ n \in 1 .. MaxBlock /\ tmpStep = Step
  BY <1>1, TableType DEF Searching, Enlarging
<1>3. CASE tmpCounter = First
  <2>1. LinearFrom = 1
    BY <1>1, <1>2, <1>3 DEF LinearFrom, Behind, Larger
  <2>2. AllBefore(LinearFrom, n)
    BY <1>2, <2>1 DEF AllBefore
  <2>3. QED
    BY <1>1, <1>2, <2>1, <2>2, ReturnStep
<1>4. CASE BelowRow(tmpCounter - Step)
  <2>1. tmpCounter - Step \in 1 .. lastNewID /\ table[tmpCounter - Step] < n
    BY <1>4 DEF BelowRow
  <2>2. LinearFrom = tmpCounter - Step
    BY <1>2, <2>1 DEF LinearFrom, Behind, Larger
  <2>3. AllBefore(LinearFrom, n)
    BY <1>1, <1>2, <2>1, <2>2, BelowIsBefore
  <2>4. QED
    BY <1>1, <2>1, <2>2, <2>3, ReturnStep
<1>5. QED
  BY <1>1, <1>3, <1>4 DEF Enlarging

-----------------------------------------------------------------------------
(* The theorems. *)

\* The search for a block (txLocateBlock) is at any moment where its moves can
\* have led it: on the table, with the block between it and one step behind it.
THEOREM SearchInvariant == Spec => []SearchInv
<1>1. Init => SearchInv
  BY InitInv
<1>2. SearchInv /\ [Next]_vars => SearchInv'
  <2>1. SUFFICES ASSUME SearchInv, [Next]_vars
                 PROVE  SearchInv'
    OBVIOUS
  <2>2. CASE \E k \in RowCounts : BatchInsert(k)
    BY <2>1, <2>2, AppendStep
  <2>3. CASE \E b \in TxBlocks : Begin(b)
    BY <2>1, <2>3, BeginStep
  <2>4. CASE Search
    BY <2>1, <2>4, EnlargeStep, FindInLastMoveStep, StartLocatingStep,
       LocateStep, FindFirstStep DEF Search
  <2>5. CASE UNCHANGED vars
    <3>1. UNCHANGED <<table, cacheTableTxBlockId, pc, n, tmpCounter, tmpStep, lastSign>>
      BY <2>5 DEF vars, search
    <3>2. QED
      BY <2>1, <3>1 DEF SearchInv, TypeOK, GoodTable, GoodCache, FirstRowOf, AllBefore,
         Searching, Newest, Enlarging, Locating, OnRow, MovedRight, MovedLeft,
         BelowRow, AboveRow, currentPos, GetFieldBlockNum, lastNewID
  <2>6. QED
    BY <2>1, <2>2, <2>3, <2>4, <2>5 DEF Next
<1>3. QED
  BY <1>1, <1>2, PTL DEF Spec

\* txLocateBlock reads no row outside of the table, however its steps shrink.
THEOREM TxTableTypes == Spec => []TypeOK
<1>1. SearchInv => TypeOK
  BY DEF SearchInv
<1>2. QED
  BY <1>1, SearchInvariant, PTL

\* What the cache and a linear search give is the range of the block.
LEMMA RangeFromFirst ==
  ASSUME TypeOK, GoodTable, GoodCache
  PROVE  RangeExact
<1>1. SUFFICES ASSUME NEW b \in TxBlocks, cacheTableTxBlockId[b] # 0
               PROVE  GetSeqBlockCoinsRange(b) = {i \in 1 .. lastNewID : table[i] = b}
  BY DEF RangeExact
<1> DEFINE a == cacheTableTxBlockId[b]
           found == {j \in a .. Size : GetFieldBlockNum(j) # b}
           f == Findnext(LAMBDA x : x # b, a)
<1>2. a \in 1 .. lastNewID /\ table[a] = b /\ AllBefore(a, b)
  BY <1>1 DEF GoodCache, FirstRowOf
<1>3. /\ lastNewID \in Nat /\ lastNewID < Size /\ Size \in Nat /\ b \in Nat \ {0}
      /\ \A i \in 1 .. lastNewID : table[i] \in Nat
  <2>1. TxBlocks \subseteq Nat
    BY DEF TxBlocks
  <2>2. QED
    BY <2>1, TableType, TxTableAssumption DEF TxBlocks
<1>4. lastNewID + 1 \in found
  BY <1>2, <1>3 DEF GetFieldBlockNum
<1>5. f = Min(found) /\ found \in SUBSET Nat
  BY <1>2 DEF Findnext
<1>6. f \in found /\ \A j \in found : f <= j
  BY <1>4, <1>5, MinOfNats
<1> HIDE DEF f
<1>7. f \in Nat /\ f <= lastNewID + 1 /\ a <= f
  <2>1. f \in a .. Size /\ f <= lastNewID + 1
    BY <1>4, <1>6
  <2>2. QED
    BY <1>2, <1>3, <2>1
<1>8. ASSUME NEW i \in a .. f - 1
      PROVE  i \in 1 .. lastNewID /\ table[i] = b
  <2>1. i \in 1 .. lastNewID /\ i \in a .. Size
    BY <1>2, <1>3, <1>7, <1>8
  <2>2. i \notin found
    BY <1>6, <1>7, <1>8
  <2>3. QED
    BY <1>3, <2>1, <2>2 DEF GetFieldBlockNum
<1>9. ASSUME NEW i \in 1 .. lastNewID, table[i] = b
      PROVE  i \in a .. f - 1
  <2>1. i >= a
    BY <1>2, <1>3, <1>9 DEF AllBefore
  <2>2. CASE f <= i
    <3>1. f \in 1 .. lastNewID /\ table[f] # b
      BY <1>2, <1>3, <1>6, <1>7, <2>2 DEF GetFieldBlockNum
    <3>2. table[a] <= table[f] /\ table[f] <= table[i]
      BY <1>2, <1>7, <1>9, <2>2, <3>1 DEF GoodTable
    <3>3. QED
      BY <1>2, <1>3, <1>9, <3>1, <3>2
  <2>3. QED
    BY <1>2, <1>3, <1>7, <2>1, <2>2
<1>10. GetSeqBlockCoinsRange(b) = a .. f - 1
  BY DEF GetSeqBlockCoinsRange, f
<1> HIDE DEF a
<1>11. QED
  BY <1>8, <1>9, <1>10

\* GetSeqBlockCoinsRange gives the rows of the block and no others, whatever
\* was appended since txLocateBlock found its first row.
THEOREM RowsExact == Spec => []RangeExact
<1>1. SearchInv => RangeExact
  BY RangeFromFirst DEF SearchInv
<1>2. QED
  BY <1>1, SearchInvariant, PTL
=============================================================================
