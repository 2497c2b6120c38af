----------------------------- MODULE CoinLedger -----------------------------
(***************************************************************************)
(* What a block's coins become: DigestTransactionsOnBlock turns them into  *)
(* rows of the transaction table, with address ids and balances,           *)
(* CalculateResultOnBlock reads the rows and the address state before the  *)
(* block, MergeBlock2AddressState folds the rows into the address state.   *)
(*                                                                         *)
(* Pipeline.tla has the order of these three calls, the crashes and the    *)
(* locks, and counts coins; here the three run to their ends and the coins *)
(* have addresses, values and heights.  Amounts are whole numbers, the     *)
(* 1e-9 a new address starts with is left out, and of the statistics those *)
(* are kept that another field or another table has to agree with.         *)
(***************************************************************************)
EXTENDS BlockTimestamp, SeqOps

CONSTANTS
  Addresses, Values,   \* of coins; a value may be zero
  Price,               \* GetPriceAtBlockN
  MaxMints, MaxCoins   \* bounds: coins minted by a block, and by the chain

Unspent == -2          \* bitcore's spentHeight of a coin nobody spent
TagMax  == 17          \* the id before the first one

ASSUME CoinLedgerAssumption ==
  /\ IsFiniteSet(Addresses) /\ Values \subseteq Nat /\ Price \in [Blocks -> Nat]
  /\ MaxMints \in Nat /\ MaxCoins \in Nat

VARIABLES
  tip, coins,            \* bitcore: the chain's height; all coins, oldest first
  AddressHashDict,       \* the id of each address, 0: none
  tmpBalanceDict,        \* balances by id, for the ids met so far
  TableTx,               \* the rows of the digested blocks
  AddressService,        \* the statistics by id
  inputOf,               \* what the calculations were given for each block
  pc, n                  \* the call in progress and its block

bitcore == <<tip, coins>>
vars == <<bitcore, AddressHashDict, tmpBalanceDict, TableTx, AddressService, inputOf, pc, n>>

Ids == TagMax + 1 .. TagMax + Cardinality(Addresses)

\* What bitcore knows of a coin, and a row of the transaction table.
Coins == [addr : Addresses, value : Values, mint : Blocks, spent : Int]
Rows  == [id : Ids, block : Blocks, mint : Blocks, spent : Int,
          amount : Int, before : Int, after : Int]

\* A row of the address state nobody has touched.
NoStatistics ==
  [created |-> 0, lastActive |-> 0, lastReceived |-> 0, lastPayed |-> 0,
   income |-> 0, expense |-> 0, numTx |-> 0, winning |-> 0, lossing |-> 0,
   lastPurchasePrice |-> 0, balance |-> 0]

isNew(id) == AddressService[id].created = 0

Init ==
  /\ tip = 0 /\ coins = <<>>
  /\ AddressHashDict = [a \in Addresses |-> 0]
  /\ tmpBalanceDict = [id \in {} |-> 0]
  /\ TableTx = <<>>
  /\ AddressService = [id \in Ids |-> NoStatistics]
  /\ inputOf = <<>>
  /\ pc = "digest" /\ n = 1

-----------------------------------------------------------------------------
\* A block is mined: it mints coins and spends older ones, or its own.
MineBlock ==
  /\ tip < N
  /\ tip' = tip + 1
  /\ \E mints \in SeqOf([addr : Addresses, value : Values], MaxMints) :
       /\ mints # <<>> /\ Len(coins) + Len(mints) <= MaxCoins
       /\ LET all == coins \o [i \in DOMAIN mints |->
                       [addr |-> mints[i].addr, value |-> mints[i].value,
                        mint |-> tip + 1, spent |-> Unspent]]
          IN  \E spends \in SUBSET {i \in DOMAIN all : all[i].spent = Unspent} :
                coins' = [i \in DOMAIN all |->
                            IF i \in spends THEN [all[i] EXCEPT !.spent = tip + 1] ELSE all[i]]
  /\ UNCHANGED <<AddressHashDict, tmpBalanceDict, TableTx, AddressService, inputOf, pc, n>>

-----------------------------------------------------------------------------
\* DigestTransactionsOnBlock.

inputs  == InOrder(coins, {c \in Coins : c.spent = n})
outputs == InOrder(coins, {c \in Coins : c.mint = n})

\* The id an address has, or the next one.
GenerateID(dict, a) ==
  IF dict[a] # 0 THEN dict
  ELSE [dict EXCEPT ![a] = Max({dict[b] : b \in Addresses} \cup {TagMax}) + 1]

\* Every address gets its id, those of the inputs first.
IdsAfter ==
  LET addrs == inputs \o outputs
  IN  FoldLeft(GenerateID, AddressHashDict, [i \in DOMAIN addrs |-> addrs[i].addr])

\* The balance an id has before the block: known, or the address state's.
BalanceBefore(id) ==
  IF id \in DOMAIN tmpBalanceDict THEN tmpBalanceDict[id] ELSE AddressService[id].balance

\* Mutant: an input counts like an output.
AmountUnsigned(c, sign) == c.value

Amount(c, sign) == sign * c.value

\* The row of a coin; what its address has after the block is not known yet.
cacheTx(dict, c, sign) ==
  [id |-> dict[c.addr], block |-> n, mint |-> c.mint, spent |-> c.spent,
   amount |-> Amount(c, sign), before |-> BalanceBefore(dict[c.addr]), after |-> 0]

\* The coins of the block, inputs first and with a negative amount.
RowsOf(dict) ==
  [i \in DOMAIN inputs |-> cacheTx(dict, inputs[i], -1)]
    \o [i \in DOMAIN outputs |-> cacheTx(dict, outputs[i], 1)]

\* The balances of the block's ids after it, by way of tmpBalanceDiffDict.
BalancesOf(rows) ==
  LET diff(id) == SumSeq([i \in DOMAIN rows |-> IF rows[i].id = id THEN rows[i].amount ELSE 0])
  IN  [id \in {rows[i].id : i \in DOMAIN rows} |-> BalanceBefore(id) + diff(id)]

\* Mutant: an id that is in the dictionary keeps its old balance.
BalancesKept(after) == tmpBalanceDict @@ after

BalancesUpdated(after) ==
  [id \in DOMAIN tmpBalanceDict \cup DOMAIN after |->
     IF id \in DOMAIN after THEN after[id] ELSE tmpBalanceDict[id]]

DigestTransactionsOnBlock ==
  /\ pc = "digest" /\ n <= tip
  /\ AddressHashDict' = IdsAfter
  /\ LET rows  == RowsOf(IdsAfter)
         after == BalancesOf(rows)
     IN  /\ TableTx' = TableTx \o [i \in DOMAIN rows |->
              [rows[i] EXCEPT !.after = after[rows[i].id]]]
         /\ tmpBalanceDict' = BalancesUpdated(after)
  /\ pc' = "calc"
  /\ UNCHANGED <<bitcore, AddressService, inputOf, n>>

-----------------------------------------------------------------------------
\* CalculateResultOnBlock, up to the call of DoCalculations.

BlockRows == InOrder(TableTx, {r \in Rows : r.block = n})
coinsMint  == InOrder(BlockRows, {r \in Rows : r.mint = n})

\* Mutant: outputs that are spent later count as spent here.
coinsSpentLater == InOrder(BlockRows, {r \in Rows : r.spent >= n})

coinsSpent == InOrder(BlockRows, {r \in Rows : r.spent = n})

Magnitude(x) == IF x < 0 THEN -x ELSE x

cacheAmount ==
  [i \in DOMAIN coinsMint |-> Magnitude(coinsMint[i].amount)]
    \o [i \in DOMAIN coinsSpent |-> -Magnitude(coinsSpent[i].amount)]

cacheAddrId == [i \in DOMAIN (coinsMint \o coinsSpent) |-> (coinsMint \o coinsSpent)[i].id]

CalculateResultOnBlock ==
  /\ pc = "calc"
  /\ inputOf' = Append(inputOf, [addrId |-> cacheAddrId, amount |-> cacheAmount,
                                 tagNew |-> [i \in DOMAIN cacheAddrId |-> isNew(cacheAddrId[i])]])
  /\ pc' = "merge"
  /\ UNCHANGED <<bitcore, AddressHashDict, tmpBalanceDict, TableTx, AddressService, n>>

-----------------------------------------------------------------------------
\* MergeBlock2AddressState.

\* Mutant: every row of the block counts as a transaction.
TouchedPerRow(s) ==
  IF s.created = 0
  THEN [s EXCEPT !.created = Ts[n], !.lastActive = Ts[n], !.winning = 1, !.lossing = 1,
                 !.lastPurchasePrice = Price[n]]
  ELSE [s EXCEPT !.numTx = @ + 1, !.lastActive = Ts[n]]

\* InitAddressState, or SubTouchAddressState at the first row of the block.
Touched(s) ==
  IF s.created = 0
  THEN [s EXCEPT !.created = Ts[n], !.lastActive = Ts[n], !.winning = 1, !.lossing = 1,
                 !.lastPurchasePrice = Price[n]]
  ELSE IF s.lastActive # Ts[n]
  THEN [s EXCEPT !.numTx = @ + 1, !.lastActive = Ts[n]]
  ELSE s

\* A coin received.
Received(s, amount) ==
  [s EXCEPT !.lastReceived = Ts[n], !.income = @ + amount, !.lastPurchasePrice = Price[n],
            !.balance = s.income + amount - s.expense]

\* Mutant: every coin paid is a trade of its own.
TradePerCoin(s) == 1

\* The coins an address pays in one block are one trade.
NewTrade(s) == IF s.lastPayed # Ts[n] THEN 1 ELSE 0

\* A coin paid: the address wins if the price is not below the one it bought at.
Payed(s, amount) ==
  LET wins == Price[n] >= s.lastPurchasePrice
  IN  [s EXCEPT !.winning = @ + (IF wins THEN NewTrade(s) ELSE 0),
                !.lossing = @ + (IF wins THEN 0 ELSE NewTrade(s)),
                !.lastPayed = Ts[n], !.expense = @ + amount,
                !.balance = s.income - s.expense - amount]

MergeIn(service, r)  == [service EXCEPT ![r.id] = Received(Touched(@), r.amount)]
MergeOut(service, r) == [service EXCEPT ![r.id] = Payed(Touched(@), -r.amount)]

\* Mutant: coins of value zero count too.
coinsInZero == InOrder(BlockRows, {r \in Rows : r.amount >= 0})

coinsIn  == InOrder(BlockRows, {r \in Rows : r.amount > 0})
coinsOut == InOrder(BlockRows, {r \in Rows : r.amount < 0})

MergeBlock2AddressState ==
  /\ pc = "merge"
  /\ AddressService' = FoldLeft(MergeOut, FoldLeft(MergeIn, AddressService, coinsIn), coinsOut)
  /\ pc' = "digest" /\ n' = n + 1
  /\ UNCHANGED <<bitcore, AddressHashDict, tmpBalanceDict, TableTx, inputOf>>

Next == MineBlock \/ DigestTransactionsOnBlock \/ CalculateResultOnBlock \/ MergeBlock2AddressState

Spec == Init /\ [][Next]_vars

-----------------------------------------------------------------------------
\* Rows that change the address state, of id and before block b.
MovesBefore(id, b) ==
  {i \in DOMAIN TableTx : TableTx[i].id = id /\ TableTx[i].block < b /\ TableTx[i].amount # 0}

BlocksOf(moves) == {TableTx[i].block : i \in moves}

\* Between two blocks the balance of an address, in the dictionary of the
\* digest and in the address state alike, is the value of the coins the chain
\* has given it and it has not spent.
BalanceIsUnspent ==
  pc = "digest" => \A a \in Addresses :
    LET id   == AddressHashDict[a]
        held == SumSeq([i \in DOMAIN coins |->
                  IF coins[i].addr = a /\ coins[i].mint < n /\ coins[i].spent \notin 1 .. n - 1
                  THEN coins[i].value ELSE 0])
    IN  id # 0 => AddressService[id].balance = held /\ tmpBalanceDict[id] = held

\* The balance a row starts from is the one the address's rows of earlier
\* blocks end with, however far bitcore is ahead of the digest.
RowsChain ==
  \A i \in DOMAIN TableTx :
    LET r    == TableTx[i]
        past == {j \in DOMAIN TableTx : TableTx[j].id = r.id /\ TableTx[j].block < r.block}
    IN  r.before = IF past = {} THEN 0 ELSE TableTx[Max(past)].after

\* The calculations take an address for new in the first block that moves value
\* to it, and never again.
NewInFirstBlock ==
  \A b \in DOMAIN inputOf : \A i \in DOMAIN inputOf[b].addrId :
    inputOf[b].tagNew[i] <=> MovesBefore(inputOf[b].addrId[i], b) = {}

\* Coins minted and spent in one block come twice in what the calculations
\* get, but the net transfer of every address is what the merge moves.
NetTransferExact ==
  \A b \in DOMAIN inputOf : \A id \in Ids :
    SumSeq([i \in DOMAIN inputOf[b].addrId |->
              IF inputOf[b].addrId[i] = id THEN inputOf[b].amount[i] ELSE 0])
      = SumSeq([i \in DOMAIN TableTx |->
              IF TableTx[i].id = id /\ TableTx[i].block = b THEN TableTx[i].amount ELSE 0])

\* However many coins of it a block moves, an address counts one transaction a
\* block after its first.  Blocks of one second would count as one.
TransactionPerBlock ==
  pc = "digest" => \A id \in Ids :
    LET blocks == BlocksOf(MovesBefore(id, n))
    IN  blocks # {} => AddressService[id].numTx = Cardinality(blocks) - 1

\* However many coins it pays in a block, an address wins or loses once.
TradePerBlock ==
  pc = "digest" => \A id \in Ids :
    LET s     == AddressService[id]
        payed == {i \in MovesBefore(id, n) : TableTx[i].amount < 0}
    IN  s.created # 0 => s.winning + s.lossing = 2 + Cardinality(BlocksOf(payed))
=============================================================================
