------------------------------ MODULE TxTable ------------------------------
(***************************************************************************)
(* service-transactions.jl: the transaction table, rows in block order,    *)
(* and the search for the rows of a block.                                 *)
(*                                                                         *)
(* A row is its block number.  The table is an array of Size rows of which *)
(* BatchInsert fills the next free ones; the others hold zero, and there   *)
(* are always more free rows than one move skips.  The search starts at    *)
(* row First (2048 in the code), moves right in steps of Step (65535) until*)
(* it is at or past the block, then left and right in steps that shrink    *)
(* when it crosses the block.  Every iteration of a loop is an action.     *)
(***************************************************************************)
EXTENDS Integers, Sequences, FiniteSetsExt

CONSTANTS
  Size,        \* rows of the table
  First,       \* the row a search starts at
  Step,        \* how far it moves at first
  MaxBlock,    \* bound on the blocks
  RowCounts    \* numbers of rows a block may have

ASSUME TxTableAssumption ==
  /\ Size \in Nat /\ First \in 1 .. Size
  /\ Step \in Nat /\ First <= Step
  /\ MaxBlock \in Nat /\ RowCounts \subseteq Nat \ {0}

VARIABLES
  table,                          \* the used rows of TableTx
  cacheTableTxBlockId,            \* first rows found so far, 0: not looked for
  pc, n,                          \* where txLocateBlock is, and its block
  tmpCounter, tmpStep, lastSign   \* its locals

search == <<pc, n, tmpCounter, tmpStep, lastSign>>
vars   == <<table, cacheTableTxBlockId, search>>

TxBlocks == 1 .. MaxBlock

lastNewID == Len(table)

\* The last block digested.
Newest == IF table = <<>> THEN 0 ELSE table[lastNewID]

GetFieldBlockNum(i) == IF i <= lastNewID THEN table[i] ELSE 0

\* TableTx.Findnext(test, :blockNum, i): the first such row from i on.
Findnext(Test(_), i) == Min({j \in i .. Size : Test(GetFieldBlockNum(j))})

Larger(i, j) == IF i > j THEN i ELSE j

\* The block at the position of the search; where its last move began.
currentPos == GetFieldBlockNum(tmpCounter)

\* Mutant: only the row the last move reached is looked at.
BehindHere == tmpCounter

Behind == Larger(tmpCounter - tmpStep, 1)

-----------------------------------------------------------------------------
Init ==
  /\ table = <<>>
  /\ cacheTableTxBlockId = [b \in TxBlocks |-> 0]
  /\ pc = "idle" /\ n = 0
  /\ tmpCounter = 0 /\ tmpStep = 0 /\ lastSign = FALSE

\* BatchInsert of the rows of the next block.
BatchInsert(k) ==
  /\ pc = "idle" /\ Newest < MaxBlock
  /\ lastNewID + k + Step < Size
  /\ table' = table \o [i \in 1 .. k |-> Newest + 1]
  /\ UNCHANGED <<cacheTableTxBlockId, search>>

\* txLocateBlock(b), when b is not in the cache.
Begin(b) ==
  /\ pc = "idle" /\ cacheTableTxBlockId[b] = 0
  /\ b <= Newest
  /\ n' = b
  /\ tmpCounter' = First
  /\ tmpStep' = Step
  /\ lastSign' = (GetFieldBlockNum(First) < b)
  /\ pc' = "enlarge"
  /\ UNCHANGED <<table, cacheTableTxBlockId>>

\* "enlarge number"
Enlarge ==
  /\ pc = "enlarge"
  /\ currentPos < n /\ currentPos # 0
  /\ tmpCounter' = tmpCounter + tmpStep
  /\ UNCHANGED <<table, cacheTableTxBlockId, pc, n, tmpStep, lastSign>>

\* The end of a search: the first row from i on that is not before the block.
Return(i) ==
  /\ cacheTableTxBlockId' =
       [cacheTableTxBlockId EXCEPT ![n] = Findnext(LAMBDA x : x >= n, i)]
  /\ pc' = "idle" /\ n' = 0 /\ tmpCounter' = 0 /\ tmpStep' = 0 /\ lastSign' = FALSE
  /\ UNCHANGED table

\* Mutant: inside the table the linear search begins where the search stands.
StopHere == IF currentPos = 0 THEN Behind ELSE tmpCounter

\* Where the linear search begins: the last move began before the block.
LinearFrom == Behind

\* Past the last row.  The guard's last line is the @assert.
FindInLastMove ==
  /\ pc = "enlarge" /\ currentPos = 0
  /\ \E i \in Behind .. tmpCounter : GetFieldBlockNum(i) >= n
  /\ Return(LinearFrom)

StartLocating ==
  /\ pc = "enlarge" /\ currentPos >= n
  /\ pc' = "locate"
  /\ UNCHANGED <<table, cacheTableTxBlockId, n, tmpCounter, tmpStep, lastSign>>

Halved == IF lastSign # (currentPos < n) THEN Larger(tmpStep \div 2, 1) ELSE tmpStep

\* Mutant: nothing keeps the search inside the table.
NextStepUnbounded == Halved

\* The next move: half as long when the block was crossed, and half of the way
\* to the first row when it would leave the table.
NextStep ==
  IF tmpCounter <= Halved \/ tmpCounter >= lastNewID
  THEN Larger(tmpCounter \div 2, 1)
  ELSE Halved

\* "locate position"
Locate ==
  /\ pc = "locate" /\ currentPos # n
  /\ tmpStep' = NextStep
  /\ tmpCounter' = IF currentPos > n THEN tmpCounter - NextStep ELSE tmpCounter + NextStep
  /\ lastSign' = (currentPos < n)
  /\ UNCHANGED <<table, cacheTableTxBlockId, pc, n>>

\* "find first"
FindFirst ==
  /\ pc = "locate" /\ currentPos = n
  /\ Return(LinearFrom)

Search == Enlarge \/ FindInLastMove \/ StartLocating \/ Locate \/ FindFirst

Next ==
  \/ \E k \in RowCounts : BatchInsert(k)
  \/ \E b \in TxBlocks : Begin(b)
  \/ Search

Spec == Init /\ [][Next]_vars

\* A search is plain code: it goes on until it returns.
FairSpec == Spec /\ WF_vars(Search)

-----------------------------------------------------------------------------
GetSeqBlockCoinsRange(b) ==
  LET a == cacheTableTxBlockId[b]
  IN  a .. Findnext(LAMBDA x : x # b, a) - 1

\* The search never reads a row outside of the table.
TypeOK ==
  /\ table \in Seq(TxBlocks) /\ lastNewID < Size
  /\ cacheTableTxBlockId \in [TxBlocks -> 0 .. Size]
  /\ pc \in {"idle", "enlarge", "locate"} /\ n \in 0 .. MaxBlock
  /\ tmpCounter \in IF pc = "idle" THEN {0} ELSE 1 .. Size
  /\ tmpStep \in Nat /\ lastSign \in BOOLEAN

\* Whatever the sizes of the blocks and whatever was appended since the search,
\* GetSeqBlockCoinsRange gives all the rows of the block and no others.
RangeExact ==
  \A b \in TxBlocks : cacheTableTxBlockId[b] # 0 =>
    GetSeqBlockCoinsRange(b) = {i \in 1 .. lastNewID : table[i] = b}

\* A search for the last block digested, the one SyncResults makes after a
\* restart and after every digest, ends with a row: no assertion stops it. A
\* search for an older block need not end: on the last row of the table it may
\* step left and right for ever (service-transactions.jl:46).
NewestFound == \A b \in TxBlocks : n = b /\ b = Newest ~> cacheTableTxBlockId[b] # 0
=============================================================================
